---- MODULE Spec2Model ----
(***************************************************************************)
(* Secure Action Gateway of the secure-browser extension: the browser      *)
(* guard and URL tracker (hooks/browser-guard.ts), the plugin wiring and   *)
(* the /approve command (index.ts), the approval ledger and the            *)
(* confirm_action tool (confirm-action.ts) and the vault tools.            *)
(*                                                                         *)
(* Strings of the program are sequences of one-character strings, so that  *)
(* toLowerCase, split, endsWith, includes and the regular expressions are  *)
(* computed and not assumed.                                               *)
(***************************************************************************)
EXTENDS Integers, Sequences, FiniteSets, TLC

\* ------------------------------------------------------------------------
\* Bounds of the model
\* ------------------------------------------------------------------------

\* confirm_action calls in one run of the ledger specification
MaxReqs == 2

\* confirm_action calls in one run of the gateway specification
MaxGateReqs == 1

\* ------------------------------------------------------------------------
\* Strings
\* ------------------------------------------------------------------------

\* JavaScript null / undefined: a value no string of characters equals
NULL == <<"null">>

UpperChars == <<"A","B","C","D","E","F","G","H","I","J","K","L","M","N","O","P","Q","R","S","T","U","V","W","X","Y","Z">>

LowerChars == <<"a","b","c","d","e","f","g","h","i","j","k","l","m","n","o","p","q","r","s","t","u","v","w","x","y","z">>

\* String.prototype.toLowerCase on one character
ToLowerChar(c) ==
  IF \E i \in 1..26 : UpperChars[i] = c
  THEN LowerChars[CHOOSE i \in 1..26 : UpperChars[i] = c]
  ELSE c

\* String.prototype.toLowerCase
toLowerCase(s) == [i \in 1..Len(s) |-> ToLowerChar(s[i])]

\* s.startsWith(p)
startsWith(s, p) == Len(p) <= Len(s) /\ SubSeq(s, 1, Len(p)) = p

\* s.endsWith(p)
endsWith(s, p) == Len(p) <= Len(s) /\ SubSeq(s, Len(s) - Len(p) + 1, Len(s)) = p

\* s.includes(p)
includes(s, p) == \E i \in 1..(Len(s) + 1) : i + Len(p) - 1 <= Len(s) /\ SubSeq(s, i, i + Len(p) - 1) = p

\* /\s/ : the white space characters that occur in the modelled inputs
IsSpace(c) == c = " "

\* String.prototype.trim
RECURSIVE trim(_)
trim(s) ==
  IF s = <<>> THEN s
  ELSE IF IsSpace(s[1]) THEN trim(Tail(s))
  ELSE IF IsSpace(s[Len(s)]) THEN trim(SubSeq(s, 1, Len(s) - 1))
  ELSE s

\* s.split(/\s+/): the pieces between maximal runs of white space
\* (a leading or trailing run leaves an empty piece, as in JavaScript)
RECURSIVE splitWs(_, _, _)
splitWs(s, cur, inRun) ==
  IF s = <<>> THEN <<cur>>
  ELSE IF IsSpace(s[1])
       THEN IF inRun THEN splitWs(Tail(s), cur, TRUE)
            ELSE <<cur>> \o splitWs(Tail(s), <<>>, TRUE)
       ELSE splitWs(Tail(s), Append(cur, s[1]), FALSE)

\* parts.join(" ")
RECURSIVE join(_)
join(parts) ==
  IF parts = <<>> THEN <<>>
  ELSE IF Len(parts) = 1 THEN parts[1]
  ELSE parts[1] \o <<" ">> \o join(Tail(parts))

\* A regular expression is a set of alternatives, each a sequence of tokens:
\* a one-character string matches that character, "ANY?" is `.?`,
\* "ANY*" is `.*`, "DASH?" is `-?`.
RECURSIVE MatchAt(_, _, _, _)
MatchAt(pat, s, i, j) ==
  IF i > Len(pat) THEN TRUE
  ELSE IF pat[i] = "ANY?"
       THEN MatchAt(pat, s, i + 1, j) \/ (j <= Len(s) /\ MatchAt(pat, s, i + 1, j + 1))
  ELSE IF pat[i] = "ANY*"
       THEN MatchAt(pat, s, i + 1, j) \/ (j <= Len(s) /\ MatchAt(pat, s, i, j + 1))
  ELSE IF pat[i] = "DASH?"
       THEN MatchAt(pat, s, i + 1, j) \/ (j <= Len(s) /\ s[j] = "-" /\ MatchAt(pat, s, i + 1, j + 1))
  ELSE j <= Len(s) /\ s[j] = pat[i] /\ MatchAt(pat, s, i + 1, j + 1)

\* RegExp.prototype.test for an unanchored pattern with the i flag
\* (the alternatives are written in lower case)
RegexTestI(alts, s) ==
  \E low \in {toLowerCase(s)} : \E a \in alts : \E j \in 1..(Len(s) + 1) : MatchAt(a, low, 1, j)

\* ------------------------------------------------------------------------
\* Configuration and the inputs of the model
\* ------------------------------------------------------------------------

ShopTest == <<"s","h","o","p",".","t","e","s","t">>

\* config.sensitiveDomains of the modelled run (the spec's end-to-end example)
sensitiveDomains == <<ShopTest>>

UrlCheckout == <<"h","t","t","p","s",":","/","/","s","h","o","p",".","t","e","s","t","/","c","h","e","c","k","o","u","t">>

UrlBrowse == <<"h","t","t","p","s",":","/","/","s","h","o","p",".","t","e","s","t","/","b","r","o","w","s","e">>

UrlBlog == <<"h","t","t","p","s",":","/","/","b","l","o","g",".","e","x","a","m","p","l","e","/">>

\* a string `new URL` rejects (no scheme)
UrlBare == <<"s","h","o","p",".","t","e","s","t","/","c","a","r","t">>

TxtPlaceOrder == <<"P","l","a","c","e"," ","y","o","u","r"," ","o","r","d","e","r">>

TxtNext == <<"N","e","x","t">>

RefE12 == <<"e","1","2">>

SiteShop == <<"s","h","o","p",".","t","e","s","t">>

\* ------------------------------------------------------------------------
\* hooks/browser-guard.ts
\* ------------------------------------------------------------------------

PURCHASE_KEYWORDS ==
  { <<"p","l","a","c","e","ANY?","o","r","d","e","r">>,
    <<"b","u","y","ANY?","n","o","w">>,
    <<"c","h","e","c","k","o","u","t">>,
    <<"c","o","m","p","l","e","t","e","ANY?","p","u","r","c","h","a","s","e">>,
    <<"c","o","n","f","i","r","m","ANY?","o","r","d","e","r">>,
    <<"p","a","y","ANY?","n","o","w">>,
    <<"s","u","b","m","i","t","ANY?","o","r","d","e","r">>,
    <<"p","r","o","c","e","e","d","ANY?","t","o","ANY?","p","a","y">>,
    <<"p","l","a","c","e","ANY?","y","o","u","r","ANY?","o","r","d","e","r">>,
    <<"p","u","r","c","h","a","s","e">>,
    <<"a","d","d","ANY?","t","o","ANY?","c","a","r","t","ANY?","a","n","d","ANY?","c","h","e","c","k","o","u","t">> }

HttpsPrefix == <<"h","t","t","p","s",":","/","/">>

HttpPrefix == <<"h","t","t","p",":","/","/">>

\* the characters that end the host of a URL
HostEnd == {"/", "?", "#", ":"}

\* the authority of a URL: what stands before the first "/", "?" or "#"
RECURSIVE TakeAuthority(_)
TakeAuthority(s) ==
  IF s = <<>> \/ s[1] \in {"/", "?", "#"} THEN <<>>
  ELSE <<s[1]>> \o TakeAuthority(Tail(s))

\* the authority without its userinfo (what follows the last "@")
RECURSIVE AfterUserinfo(_)
AfterUserinfo(s) ==
  IF \A i \in 1..Len(s) : s[i] # "@" THEN s
  ELSE AfterUserinfo(Tail(s))

RECURSIVE TakeHost(_)
TakeHost(s) ==
  IF s = <<>> \/ s[1] \in HostEnd THEN <<>>
  ELSE <<s[1]>> \o TakeHost(Tail(s))

\* new URL(url).hostname: [ok |-> FALSE] when the constructor throws
\* (no http/https scheme or no host), else the host in lower case
UrlHostname(url) ==
  LET rest == IF startsWith(toLowerCase(url), HttpsPrefix) THEN SubSeq(url, Len(HttpsPrefix) + 1, Len(url))
              ELSE IF startsWith(toLowerCase(url), HttpPrefix) THEN SubSeq(url, Len(HttpPrefix) + 1, Len(url))
              ELSE NULL
      host == IF rest = NULL THEN <<>> ELSE TakeHost(AfterUserinfo(TakeAuthority(rest)))
  IN IF rest = NULL \/ host = <<>>
     THEN [ok |-> FALSE, hostname |-> <<>>]
     ELSE [ok |-> TRUE, hostname |-> toLowerCase(host)]

WwwDot == <<"w","w","w",".">>

\* an isSensitiveDomain that accepts any host ending in a configured domain
isSensitiveDomain_noBoundary(url, domains) ==
  LET parsed == UrlHostname(url)
  IN IF parsed.ok
     THEN \E k \in 1..Len(domains) : endsWith(toLowerCase(parsed.hostname), toLowerCase(domains[k]))
     ELSE \E k \in 1..Len(domains) : includes(toLowerCase(url), toLowerCase(domains[k]))

isSensitiveDomain(url, domains) ==
  LET parsed == UrlHostname(url)
  IN IF parsed.ok
     THEN LET hostname == toLowerCase(parsed.hostname)
          IN \E k \in 1..Len(domains) :
               LET d == toLowerCase(domains[k])
               IN hostname = d \/ hostname = WwwDot \o d \/ endsWith(hostname, <<".">> \o d)
     ELSE LET lower == toLowerCase(url)
          IN \E k \in 1..Len(domains) : includes(lower, toLowerCase(domains[k]))

\* the `request` object of an act call; NULL marks a field that is no string
Request(text, ref, key) == [text |-> text, ref |-> ref, key |-> key]

NoRequest == [text |-> NULL, ref |-> NULL, key |-> NULL, absent |-> TRUE]

\* a tool call event: tool name and params (action, targetUrl, request)
Event(toolName, action, targetUrl, request) ==
  [toolName |-> toolName, action |-> action, targetUrl |-> targetUrl, request |-> request]

\* the text of the request alone
extractActText_requestOnly(params) ==
  LET request == params.request
      p1 == IF request # NoRequest /\ request.text # NULL THEN <<request.text>> ELSE <<>>
      p2 == IF request # NoRequest /\ request.ref # NULL THEN <<request.ref>> ELSE <<>>
      p3 == IF request # NoRequest /\ request.key # NULL THEN <<request.key>> ELSE <<>>
  IN join(p1 \o p2 \o p3)

extractActText(params) ==
  LET request == params.request
      p1 == IF request # NoRequest /\ request.text # NULL THEN <<request.text>> ELSE <<>>
      p2 == IF request # NoRequest /\ request.ref # NULL THEN <<request.ref>> ELSE <<>>
      p3 == IF request # NoRequest /\ request.key # NULL THEN <<request.key>> ELSE <<>>
      p4 == IF params.targetUrl # NULL THEN <<params.targetUrl>> ELSE <<>>
  IN join(p1 \o p2 \o p3 \o p4)

BlockReason ==
  join(<< <<"T","h","i","s"," ","a","c","t","i","o","n"," ","l","o","o","k","s"," ","l","i","k","e"," ","a"," ","p","u","r","c","h","a","s","e"," ","o","r"," ","f","i","n","a","n","c","i","a","l"," ","t","r","a","n","s","a","c","t","i","o","n"," ","o","n"," ","a"," ","s","e","n","s","i","t","i","v","e"," ","d","o","m","a","i","n",".">>,
          <<"Y","o","u"," ","m","u","s","t"," ","c","a","l","l"," ","c","o","n","f","i","r","m","_","a","c","t","i","o","n"," ","f","i","r","s","t"," ","t","o"," ","g","e","t"," ","u","s","e","r"," ","a","p","p","r","o","v","a","l"," ","b","e","f","o","r","e"," ","p","r","o","c","e","e","d","i","n","g",".">>,
          <<"S","e","n","d"," ","a"," ","s","c","r","e","e","n","s","h","o","t"," ","a","n","d"," ","s","u","m","m","a","r","y"," ","o","f"," ","w","h","a","t"," ","y","o","u","'","r","e"," ","a","b","o","u","t"," ","t","o"," ","d","o",","," ","t","h","e","n"," ","w","a","i","t"," ","f","o","r"," ","t","h","e"," ","u","s","e","r","'","s"," ","r","e","s","p","o","n","s","e",".">> >>)

\* ------------------------------------------------------------------------
\* State
\* ------------------------------------------------------------------------

VARIABLES
  currentUrl,        \* createUrlTracker: the tracker's cell
  lastKnownUrl,      \* createBrowserGuardHandler: the guard's own cell
  pageUrl,           \* the URL the browser page really shows
  call,              \* the tool call between its before and after hook
  verdict,           \* what the guard answered to the last tool call
  pendingApprovals,  \* confirm-action.ts: the ledger, id -> entry
  reqs,              \* the confirm_action calls, in the order they started
  lastOp,            \* the handler that ran last, its inputs and its answer
  secrets,           \* the vault item of each run, field -> value
  clientPromise,     \* vault.ts: the cached 1Password client of each run
  toolResult,        \* what the last vault call returned in each run
  trace,             \* the calls the last vault call made on its collaborators
  vaultCall,         \* the last vault call and the answers it was given
  probe              \* a value set aside: a function applied on its own, or an earlier verdict

vars ==
  <<currentUrl, lastKnownUrl, pageUrl, call, verdict, pendingApprovals, reqs, lastOp,
    secrets, clientPromise, toolResult, trace, vaultCall, probe>>

vaultVars == <<secrets, clientPromise, toolResult, trace, vaultCall>>

gateVars == <<currentUrl, lastKnownUrl, pageUrl, call, verdict>>

ledgerVars == <<pendingApprovals, reqs>>

\* ------------------------------------------------------------------------
\* hooks/browser-guard.ts: the guard and the tracker
\* ------------------------------------------------------------------------

\* a getter that looks at the page itself
getCurrentUrl_page == pageUrl

\* what the tracker hands to the guard (index.ts: getCurrentUrl: urlTracker.getCurrentUrl)
getCurrentUrl == currentUrl

Pass(lku) == [block |-> FALSE, blockReason |-> <<>>, lastKnownUrl |-> lku]

\* a guard that puts every browser action to the domain and keyword tests
guardHandler_anyAction(event) ==
  IF event.toolName # "browser" THEN Pass(lastKnownUrl)
  ELSE LET action == event.action
           lku == IF action = "navigate" /\ event.targetUrl # NULL THEN event.targetUrl ELSE lastKnownUrl
           cur == IF getCurrentUrl # NULL THEN getCurrentUrl ELSE lku
       IN IF cur = NULL \/ cur = <<>> THEN Pass(lku)
          ELSE IF ~isSensitiveDomain(cur, sensitiveDomains) THEN Pass(lku)
          ELSE IF ~RegexTestI(PURCHASE_KEYWORDS, extractActText(event)) THEN Pass(lku)
          ELSE [block |-> TRUE, blockReason |-> BlockReason, lastKnownUrl |-> lku]

\* a guard that forgets the domain test and blocks on purchase text alone
guardHandler_noDomainCheck(event) ==
  IF event.toolName # "browser" THEN Pass(lastKnownUrl)
  ELSE LET action == event.action
           lku == IF action = "navigate" /\ event.targetUrl # NULL THEN event.targetUrl ELSE lastKnownUrl
       IN IF action # "act" THEN Pass(lku)
          ELSE LET cur == IF getCurrentUrl # NULL THEN getCurrentUrl ELSE lku
               IN IF cur = NULL \/ cur = <<>> THEN Pass(lku)
                  ELSE IF ~RegexTestI(PURCHASE_KEYWORDS, extractActText(event)) THEN Pass(lku)
                  ELSE [block |-> TRUE, blockReason |-> BlockReason, lastKnownUrl |-> lku]

\* the before_tool_call handler: its answer and the new value of lastKnownUrl
guardHandler(event) ==
  IF event.toolName # "browser" THEN Pass(lastKnownUrl)
  ELSE LET action == event.action
           lku == IF action = "navigate" /\ event.targetUrl # NULL THEN event.targetUrl ELSE lastKnownUrl
       IN IF action # "act" THEN Pass(lku)
          ELSE LET cur == IF getCurrentUrl # NULL THEN getCurrentUrl ELSE lku
               IN IF cur = NULL \/ cur = <<>> THEN Pass(lku)
                  ELSE IF ~isSensitiveDomain(cur, sensitiveDomains) THEN Pass(lku)
                  ELSE IF ~RegexTestI(PURCHASE_KEYWORDS, extractActText(event)) THEN Pass(lku)
                  ELSE [block |-> TRUE, blockReason |-> BlockReason, lastKnownUrl |-> lku]

\* a tracker that takes the url of the result of any tool
urlTrackerHandler_anyTool(event, resultUrl) ==
  LET afterNav == IF event.toolName = "browser" /\ event.action = "navigate" /\ event.targetUrl # NULL
                  THEN event.targetUrl ELSE currentUrl
  IN IF resultUrl # NULL THEN resultUrl ELSE afterNav

\* a tracker in which the target of a navigate is kept although the result
\* carries a url
urlTrackerHandler_targetWins(event, resultUrl) ==
  IF event.toolName # "browser" THEN currentUrl
  ELSE IF event.action = "navigate" /\ event.targetUrl # NULL THEN event.targetUrl
  ELSE IF resultUrl # NULL THEN resultUrl
  ELSE currentUrl

\* the after_tool_call handler of the tracker: the new value of its cell
urlTrackerHandler(event, resultUrl) ==
  IF event.toolName # "browser" THEN currentUrl
  ELSE LET afterNav == IF event.action = "navigate" /\ event.targetUrl # NULL THEN event.targetUrl ELSE currentUrl
       IN IF resultUrl # NULL THEN resultUrl ELSE afterNav

\* ------------------------------------------------------------------------
\* tools/vault-login.ts: where vault_login sends the browser
\* ------------------------------------------------------------------------

LoginSuffix == <<"/","l","o","g","i","n">>

\* LOGIN_PATHS has no entry for the modelled site
loginTargetUrl(site, loginUrl) ==
  IF loginUrl # NULL THEN loginUrl ELSE HttpsPrefix \o WwwDot \o site \o LoginSuffix

\* ------------------------------------------------------------------------
\* tools/confirm-action.ts: the approval ledger
\* ------------------------------------------------------------------------

IdA == <<"a","b","1","2","c","d","3","4">>

IdB == <<"e","f","5","6","a","b","7","8">>

IdUnknown == <<"z","z","9","9","9","9","9","9">>

\* crypto.randomUUID().slice(0, 8): the ids a call may draw
Ids == {IdA, IdB}

NoResult == [returned |-> FALSE, approved |-> FALSE, approvalId |-> NULL, error |-> ""]

\* a confirm_action call at its start
NewReq(id) ==
  [id |-> id, pc |-> "start", timer |-> "none",
   fires |-> 0, settled |-> FALSE, value |-> FALSE, result |-> NoResult,
   requestMsg |-> "none", notice |-> "none", accepted |-> "none", first |-> "none",
   blockedBefore |-> FALSE, cfg |-> "none"]

\* pendingApprovals.set(id, entry)
MapSet(m, id, entry) == [i \in (DOMAIN m) \cup {id} |-> IF i = id THEN entry ELSE m[i]]

\* pendingApprovals.delete(id)
MapDelete(m, id) == [i \in (DOMAIN m) \ {id} |-> m[i]]

\* the `resolve` function of call r's promise, and the continuation of
\* execute that the first settlement releases (up to the delivery of the notice)
resolveWaiter(rq, r, approved) ==
  IF rq[r].settled
  THEN [rq EXCEPT ![r].fires = @ + 1]
  ELSE [rq EXCEPT ![r].fires = @ + 1, ![r].settled = TRUE, ![r].value = approved, ![r].pc = "notify"]

\* a resolveApproval that leaves the entry in the ledger
resolveApproval_keepsEntry(approvalId, approved) ==
  IF approvalId \notin DOMAIN pendingApprovals
  THEN [ret |-> FALSE, pending |-> pendingApprovals, reqs |-> reqs]
  ELSE LET entry == pendingApprovals[approvalId]
           cleared == [reqs EXCEPT ![entry.req].timer = IF @ = "armed" THEN "cleared" ELSE @]
       IN [ret |-> TRUE,
           pending |-> pendingApprovals,
           reqs |-> resolveWaiter(cleared, entry.req, approved)]

\* a resolveApproval that empties the ledger when it does not hold the id
resolveApproval_absentClears(approvalId, approved) ==
  IF approvalId \notin DOMAIN pendingApprovals
  THEN [ret |-> FALSE, pending |-> <<>>, reqs |-> reqs]
  ELSE LET entry == pendingApprovals[approvalId]
           cleared == [reqs EXCEPT ![entry.req].timer = IF @ = "armed" THEN "cleared" ELSE @]
       IN [ret |-> TRUE,
           pending |-> MapDelete(pendingApprovals, approvalId),
           reqs |-> resolveWaiter(cleared, entry.req, approved)]

\* resolveApproval: its return value and the ledger and calls it leaves
resolveApproval(approvalId, approved) ==
  IF approvalId \notin DOMAIN pendingApprovals
  THEN [ret |-> FALSE, pending |-> pendingApprovals, reqs |-> reqs]
  ELSE LET entry == pendingApprovals[approvalId]
           cleared == [reqs EXCEPT ![entry.req].timer = IF @ = "armed" THEN "cleared" ELSE @]
       IN [ret |-> TRUE,
           pending |-> MapDelete(pendingApprovals, approvalId),
           reqs |-> resolveWaiter(cleared, entry.req, approved)]

\* listPendingApprovals
listPendingApprovals == DOMAIN pendingApprovals

\* waitForApproval for call r: arms the timer, stores the entry
waitForApproval(rq, r, approvalId) ==
  [pending |-> MapSet(pendingApprovals, approvalId, [id |-> approvalId, req |-> r]),
   reqs |-> [rq EXCEPT ![r].timer = "armed", ![r].pc = "waiting"]]

\* a timeout that resolves the promise with true
timeoutCallback_approves(r) ==
  [pending |-> MapDelete(pendingApprovals, reqs[r].id),
   reqs |-> resolveWaiter([reqs EXCEPT ![r].timer = "fired"], r, TRUE)]

\* a timeout that leaves the entry in the ledger
timeoutCallback_keepsEntry(r) ==
  [pending |-> pendingApprovals,
   reqs |-> resolveWaiter([reqs EXCEPT ![r].timer = "fired"], r, FALSE)]

\* a timeout that removes the entry and forgets the waiter
timeoutCallback_forgetsWaiter(r) ==
  [pending |-> MapDelete(pendingApprovals, reqs[r].id),
   reqs |-> [reqs EXCEPT ![r].timer = "fired"]]

\* the setTimeout callback of call r
timeoutCallback(r) ==
  [pending |-> MapDelete(pendingApprovals, reqs[r].id),
   reqs |-> resolveWaiter([reqs EXCEPT ![r].timer = "fired"], r, FALSE)]

\* ------------------------------------------------------------------------
\* tools/confirm-action.ts: confirm_action
\* ------------------------------------------------------------------------

\* the outcomes of loadConfig() and of the search for the channel's target
CfgOutcomes == {"target", "notarget", "throws"}

ErrorResult(error) == [returned |-> TRUE, approved |-> FALSE, approvalId |-> NULL, error |-> error]

\* as afterScreenshot, but a missing target does not stop the call
afterScreenshot_ignoresTarget(rec, cfg) ==
  IF cfg = "throws" THEN [rec EXCEPT !.pc = "done", !.result = ErrorResult("loadConfig failed")]
  ELSE [rec EXCEPT !.pc = "deliver", !.requestMsg = "handed"]

\* execute from loadConfig() to the hand-over of the approval message
afterScreenshot(rec, cfg) ==
  IF cfg = "throws" THEN [rec EXCEPT !.pc = "done", !.result = ErrorResult("loadConfig failed")]
  ELSE IF cfg = "notarget" THEN [rec EXCEPT !.pc = "done", !.result = ErrorResult("No approval target configured")]
  ELSE [rec EXCEPT !.pc = "deliver", !.requestMsg = "handed"]

\* execute from its start to its first await
executeStart(id, takeScreenshot, cfg) ==
  IF takeScreenshot THEN [NewReq(id) EXCEPT !.pc = "screenshot"]
  ELSE afterScreenshot(NewReq(id), cfg)

\* execute after `await browserScreenshotAction`: the outcome decides only
\* whether the message carries the picture; a failure is logged, not raised
executeAfterScreenshot(rec, shot, cfg) == afterScreenshot(rec, cfg)

\* as executeAfterDeliver, but the call waits for an approval whether or
\* not the message was delivered
executeAfterDeliver_waitsAnyway(r, delivered) ==
  waitForApproval([reqs EXCEPT ![r].requestMsg = IF delivered THEN "sent" ELSE "failed"], r, reqs[r].id)

\* execute after the first `await deliverOutboundPayloads`
executeAfterDeliver(r, delivered) ==
  IF delivered
  THEN waitForApproval([reqs EXCEPT ![r].requestMsg = "sent"], r, reqs[r].id)
  ELSE [pending |-> pendingApprovals,
        reqs |-> [reqs EXCEPT ![r].requestMsg = "failed", ![r].pc = "done",
                              ![r].result = ErrorResult("delivery failed")]]

\* as executeAfterNotice, but a failed notice turns the call into an error
executeAfterNotice_failsOnError(rec, delivered) ==
  [rec EXCEPT !.notice = IF delivered THEN "sent" ELSE "failed",
              !.pc = "done",
              !.result = IF delivered
                         THEN [returned |-> TRUE, approved |-> rec.value, approvalId |-> rec.id, error |-> ""]
                         ELSE ErrorResult("notice failed")]

\* execute after the second `await deliverOutboundPayloads(...).catch(...)`
executeAfterNotice(rec, delivered) ==
  [rec EXCEPT !.notice = IF delivered THEN "sent" ELSE "failed",
              !.pc = "done",
              !.result = [returned |-> TRUE, approved |-> rec.value, approvalId |-> rec.id, error |-> ""]]

\* ------------------------------------------------------------------------
\* index.ts: the /approve command
\* ------------------------------------------------------------------------

Yes == <<"y","e","s">>

Y == <<"y">>

Approve == <<"a","p","p","r","o","v","e">>

Reply(tag, id) == [tag |-> tag, id |-> id]

\* a handler that takes "yes" alone for an approval
approveHandler_yesOnly(args) ==
  LET parts == splitWs(trim(args), <<>>, FALSE)
      approvalId == parts[1]
      decision == IF Len(parts) >= 2 THEN toLowerCase(parts[2]) ELSE NULL
  IN IF approvalId = <<>>
     THEN [reply |-> Reply("usage", <<>>), called |-> FALSE, id |-> <<>>, approved |-> FALSE,
           ret |-> FALSE, pending |-> pendingApprovals, reqs |-> reqs]
     ELSE LET approved == decision = Yes
              out == resolveApproval(approvalId, approved)
          IN [reply |-> IF ~out.ret THEN Reply("notfound", approvalId)
                        ELSE IF approved THEN Reply("approved", approvalId)
                        ELSE Reply("denied", approvalId),
              called |-> TRUE, id |-> approvalId, approved |-> approved,
              ret |-> out.ret, pending |-> out.pending, reqs |-> out.reqs]

\* the command handler: its reply, whether and how it called resolveApproval,
\* and the ledger and calls it leaves
approveHandler(args) ==
  LET parts == splitWs(trim(args), <<>>, FALSE)
      approvalId == parts[1]
      decision == IF Len(parts) >= 2 THEN toLowerCase(parts[2]) ELSE NULL
  IN IF approvalId = <<>>
     THEN [reply |-> Reply("usage", <<>>), called |-> FALSE, id |-> <<>>, approved |-> FALSE,
           ret |-> FALSE, pending |-> pendingApprovals, reqs |-> reqs]
     ELSE LET approved == decision = Yes \/ decision = Y \/ decision = Approve
              out == resolveApproval(approvalId, approved)
          IN [reply |-> IF ~out.ret THEN Reply("notfound", approvalId)
                        ELSE IF approved THEN Reply("approved", approvalId)
                        ELSE Reply("denied", approvalId),
              called |-> TRUE, id |-> approvalId, approved |-> approved,
              ret |-> out.ret, pending |-> out.pending, reqs |-> out.reqs]

\* the command lines the human may send
CmdYesA == <<"a","b","1","2","c","d","3","4"," ","y","e","s">>

CmdNoA == <<"a","b","1","2","c","d","3","4"," ","n","o">>

CommandArgs ==
  { <<" ">>,
    CmdYesA,
    CmdNoA,
    <<"a","b","1","2","c","d","3","4">>,
    <<" ","e","f","5","6","a","b","7","8"," "," ","Y","E","S"," ">>,
    <<"e","f","5","6","a","b","7","8"," ","n","o","p","e">>,
    <<"z","z","9","9","9","9","9","9"," ","y">> }

\* ------------------------------------------------------------------------
\* vault.ts: the credential bridge
\*
\* A call runs in a context cx: the vault item it names (store), the cached
\* client (client), the calls it has made on the vault service and the
\* browser so far (trace), and the answers those collaborators give (env).
\* Every operator returns the context it leaves, whether it threw, and the
\* message of the error it threw.
\* ------------------------------------------------------------------------

FieldUsername == <<"u","s","e","r","n","a","m","e">>

FieldPassword == <<"p","a","s","s","w","o","r","d">>

FieldTotp == <<"o","n","e","-","t","i","m","e"," ","p","a","s","s","w","o","r","d">>

FieldCardNumber == <<"c","r","e","d","i","t"," ","c","a","r","d"," ","n","u","m","b","e","r">>

FieldCvv == <<"v","e","r","i","f","i","c","a","t","i","o","n"," ","n","u","m","b","e","r">>

Absent == [present |-> FALSE, value |-> ""]

Secret(v) == [present |-> TRUE, value |-> v]

NoClient == "null"

Returned(cx) == [cx |-> cx, thrown |-> FALSE, error |-> <<>>]

Thrown(cx, error) == [cx |-> cx, thrown |-> TRUE, error |-> error]

\* `const x = await e; ...`: e is evaluated once and the rest of the function
\* runs on its value
Await(e, rest(_)) == CHOOSE y \in {rest(x) : x \in {e}} : TRUE

\* one call on a collaborator, as the trace keeps it
Called(cx, op, ref, text, ok) ==
  [cx EXCEPT !.trace = Append(@, [op |-> op, ref |-> ref, text |-> text, ok |-> ok])]

\* getClient: the cached client, or a new one when the token is set
getClient(cx) ==
  IF cx.client # NoClient THEN Returned(cx)
  ELSE IF ~cx.env.token
       THEN Thrown(cx, <<"OP_SERVICE_ACCOUNT_TOKEN is not set. A 1Password service account token is required for vault operations.">>)
  ELSE Returned([cx EXCEPT !.client = "client"])

\* client.secrets.resolve(`${basePath}/${field}`): the value of the field, or
\* a rejection when the item has no such field
secretsResolve(cx, field) ==
  Await(IF field \in DOMAIN cx.store THEN cx.store[field] ELSE Absent, LAMBDA entry :
    IF entry.present
    THEN [cx |-> Called(cx, "resolve", field, "", TRUE), thrown |-> FALSE, error |-> <<>>, value |-> entry.value]
    ELSE [cx |-> Called(cx, "resolve", field, "", FALSE), thrown |-> TRUE,
          error |-> <<"could not resolve secret reference">>, value |-> ""])

NoCreds == [username |-> "", password |-> "", totp |-> Absent]

\* the one-time password is required as well
vaultResolve_totpRequired(cx) ==
  Await(getClient(cx), LAMBDA c :
    IF c.thrown THEN [cx |-> c.cx, thrown |-> TRUE, error |-> c.error, creds |-> NoCreds]
    ELSE Await(secretsResolve(c.cx, FieldUsername), LAMBDA u :
      IF u.thrown THEN [cx |-> u.cx, thrown |-> TRUE, error |-> u.error, creds |-> NoCreds]
      ELSE Await(secretsResolve(u.cx, FieldPassword), LAMBDA p :
        IF p.thrown THEN [cx |-> p.cx, thrown |-> TRUE, error |-> p.error, creds |-> NoCreds]
        ELSE Await(secretsResolve(p.cx, FieldTotp), LAMBDA t :
          IF t.thrown THEN [cx |-> t.cx, thrown |-> TRUE, error |-> t.error, creds |-> NoCreds]
          ELSE [cx |-> t.cx, thrown |-> FALSE, error |-> <<>>,
                creds |-> [username |-> u.value, password |-> p.value, totp |-> Secret(t.value)]]))))

\* vaultResolve: username and password are required, the one-time password
\* is optional
vaultResolve(cx) ==
  Await(getClient(cx), LAMBDA c :
    IF c.thrown THEN [cx |-> c.cx, thrown |-> TRUE, error |-> c.error, creds |-> NoCreds]
    ELSE Await(secretsResolve(c.cx, FieldUsername), LAMBDA u :
      IF u.thrown THEN [cx |-> u.cx, thrown |-> TRUE, error |-> u.error, creds |-> NoCreds]
      ELSE Await(secretsResolve(u.cx, FieldPassword), LAMBDA p :
        IF p.thrown THEN [cx |-> p.cx, thrown |-> TRUE, error |-> p.error, creds |-> NoCreds]
        ELSE Await(secretsResolve(p.cx, FieldTotp), LAMBDA t :
          [cx |-> t.cx, thrown |-> FALSE, error |-> <<>>,
           creds |-> [username |-> u.value, password |-> p.value,
                      totp |-> IF t.thrown THEN Absent ELSE Secret(t.value)]]))))

\* the browserAct calls of a context so far
NumActs(tr) == Cardinality({i \in 1..Len(tr) : tr[i].op \in {"type", "click"}})

\* browserAct: the browser control client carries out the request or
\* rejects; the message of its error is the client's own and may quote the
\* request it was given
browserAct(cx, kind, ref, text) ==
  LET fails == cx.env.failAct = NumActs(cx.trace) + 1
      cx1 == Called(cx, kind, ref, text, ~fails)
  IN IF ~fails THEN Returned(cx1)
     ELSE IF cx.env.echo /\ kind = "type"
          THEN Thrown(cx1, <<"browser act failed: type", text>>)
     ELSE Thrown(cx1, <<"browser act failed">>)

\* fillField
fillField(cx, ref, value) == browserAct(cx, "type", ref, value)

\* browserSnapshot(baseUrl, { format: "aria", profile }): the page as the
\* environment shows it at this step of the call
browserSnapshot(cx, step) ==
  [cx |-> Called(cx, "snapshot", <<>>, "", cx.env.snaps[step].ok), snap |-> cx.env.snaps[step]]

\* nodes.find: the index of the first node with one of the roles whose name
\* matches the pattern, 0 when there is none
FindNode(nodes, roles, pattern) ==
  Await({i \in 1..Len(nodes) : nodes[i].role \in roles /\ RegexTestI(pattern, nodes[i].name)}, LAMBDA hits :
    IF hits = {} THEN 0 ELSE CHOOSE i \in hits : \A k \in hits : i <= k)

\* /email|username|login|user.*name|e-?mail/i
UsernamePattern ==
  { <<"e","m","a","i","l">>, <<"u","s","e","r","n","a","m","e">>, <<"l","o","g","i","n">>,
    <<"u","s","e","r","ANY*","n","a","m","e">>,
    <<"e","DASH?","m","a","i","l">> }

\* /password|passwd|pass/i
PasswordPattern == { <<"p","a","s","s","w","o","r","d">>, <<"p","a","s","s","w","d">>, <<"p","a","s","s">> }

\* /code|otp|totp|verify|authenticat|2fa|mfa|one.?time/i
TotpPattern ==
  { <<"c","o","d","e">>, <<"o","t","p">>, <<"t","o","t","p">>, <<"v","e","r","i","f","y">>, <<"a","u","t","h","e","n","t","i","c","a","t">>, <<"2","f","a">>, <<"m","f","a">>,
    <<"o","n","e","ANY?","t","i","m","e">> }

\* /sign.?in|log.?in|submit|continue|next/i
SubmitPattern ==
  { <<"s","i","g","n","ANY?","i","n">>, <<"l","o","g","ANY?","i","n">>,
    <<"s","u","b","m","i","t">>, <<"c","o","n","t","i","n","u","e">>, <<"n","e","x","t">> }

\* /verify|submit|continue|confirm|next/i
VerifyPattern == { <<"v","e","r","i","f","y">>, <<"s","u","b","m","i","t">>, <<"c","o","n","t","i","n","u","e">>, <<"c","o","n","f","i","r","m">>, <<"n","e","x","t">> }

NoFieldMap == [username |-> NULL, password |-> NULL]

\* the password is typed before the username
vaultInject_passwordFirst(cx, fieldMap) ==
  Await(vaultResolve(cx), LAMBDA r :
    IF r.thrown THEN Thrown(r.cx, r.error)
    ELSE IF fieldMap.username \notin {NULL, <<>>} /\ fieldMap.password \notin {NULL, <<>>}
    THEN Await(fillField(r.cx, fieldMap.password, r.creds.password), LAMBDA f1 :
           IF f1.thrown THEN f1 ELSE fillField(f1.cx, fieldMap.username, r.creds.username))
    ELSE Await(browserSnapshot(r.cx, "inject"), LAMBDA s :
      IF ~s.snap.ok THEN Thrown(s.cx, <<"Failed to take page snapshot for credential injection">>)
      ELSE Await(FindNode(s.snap.nodes, {"textbox"}, UsernamePattern), LAMBDA emailNode :
        Await(FindNode(s.snap.nodes, {"textbox"}, PasswordPattern), LAMBDA passwordNode :
          IF emailNode = 0 THEN Thrown(s.cx, <<"Could not auto-detect username/email input field on page">>)
          ELSE IF passwordNode = 0 THEN Thrown(s.cx, <<"Could not auto-detect password input field on page">>)
          ELSE Await(fillField(s.cx, s.snap.nodes[passwordNode].ref, r.creds.password), LAMBDA f1 :
                 IF f1.thrown THEN f1 ELSE fillField(f1.cx, s.snap.nodes[emailNode].ref, r.creds.username))))))

\* the username is typed as soon as its input is found, before the
\* password input is looked for
vaultInject_typesAsFound(cx, fieldMap) ==
  Await(vaultResolve(cx), LAMBDA r :
    IF r.thrown THEN Thrown(r.cx, r.error)
    ELSE IF fieldMap.username \notin {NULL, <<>>} /\ fieldMap.password \notin {NULL, <<>>}
    THEN Await(fillField(r.cx, fieldMap.username, r.creds.username), LAMBDA f1 :
           IF f1.thrown THEN f1 ELSE fillField(f1.cx, fieldMap.password, r.creds.password))
    ELSE Await(browserSnapshot(r.cx, "inject"), LAMBDA s :
      IF ~s.snap.ok THEN Thrown(s.cx, <<"Failed to take page snapshot for credential injection">>)
      ELSE Await(FindNode(s.snap.nodes, {"textbox"}, UsernamePattern), LAMBDA emailNode :
        IF emailNode = 0 THEN Thrown(s.cx, <<"Could not auto-detect username/email input field on page">>)
        ELSE Await(fillField(s.cx, s.snap.nodes[emailNode].ref, r.creds.username), LAMBDA f1 :
          IF f1.thrown THEN f1
          ELSE Await(FindNode(s.snap.nodes, {"textbox"}, PasswordPattern), LAMBDA passwordNode :
            IF passwordNode = 0 THEN Thrown(f1.cx, <<"Could not auto-detect password input field on page">>)
            ELSE fillField(f1.cx, s.snap.nodes[passwordNode].ref, r.creds.password))))))

\* vaultInject: resolves the credentials and types them into the page
vaultInject(cx, fieldMap) ==
  Await(vaultResolve(cx), LAMBDA r :
    IF r.thrown THEN Thrown(r.cx, r.error)
    ELSE IF fieldMap.username \notin {NULL, <<>>} /\ fieldMap.password \notin {NULL, <<>>}
    THEN Await(fillField(r.cx, fieldMap.username, r.creds.username), LAMBDA f1 :
           IF f1.thrown THEN f1 ELSE fillField(f1.cx, fieldMap.password, r.creds.password))
    ELSE Await(browserSnapshot(r.cx, "inject"), LAMBDA s :
      IF ~s.snap.ok THEN Thrown(s.cx, <<"Failed to take page snapshot for credential injection">>)
      ELSE Await(FindNode(s.snap.nodes, {"textbox"}, UsernamePattern), LAMBDA emailNode :
        Await(FindNode(s.snap.nodes, {"textbox"}, PasswordPattern), LAMBDA passwordNode :
          IF emailNode = 0 THEN Thrown(s.cx, <<"Could not auto-detect username/email input field on page">>)
          ELSE IF passwordNode = 0 THEN Thrown(s.cx, <<"Could not auto-detect password input field on page">>)
          ELSE Await(fillField(s.cx, s.snap.nodes[emailNode].ref, r.creds.username), LAMBDA f1 :
                 IF f1.thrown THEN f1 ELSE fillField(f1.cx, s.snap.nodes[passwordNode].ref, r.creds.password))))))

\* the snapshot is taken before the one-time password is looked at
vaultInjectTotp_looksFirst(cx, totpRef) ==
  Await(vaultResolve(cx), LAMBDA r :
    IF r.thrown THEN [cx |-> r.cx, thrown |-> TRUE, error |-> r.error, filled |-> FALSE]
    ELSE Await(browserSnapshot(r.cx, "totp"), LAMBDA s :
      IF ~r.creds.totp.present \/ r.creds.totp.value = ""
      THEN [cx |-> s.cx, thrown |-> FALSE, error |-> <<>>, filled |-> FALSE]
      ELSE IF totpRef \notin {NULL, <<>>}
      THEN Await(fillField(s.cx, totpRef, r.creds.totp.value), LAMBDA f :
             [cx |-> f.cx, thrown |-> f.thrown, error |-> f.error, filled |-> ~f.thrown])
      ELSE IF ~s.snap.ok
      THEN [cx |-> s.cx, thrown |-> TRUE, error |-> <<"Failed to take page snapshot for TOTP injection">>, filled |-> FALSE]
      ELSE Await(FindNode(s.snap.nodes, {"textbox"}, TotpPattern), LAMBDA codeNode :
        IF codeNode = 0
        THEN [cx |-> s.cx, thrown |-> TRUE,
              error |-> <<"Could not auto-detect TOTP/verification code input field on page">>, filled |-> FALSE]
        ELSE Await(fillField(s.cx, s.snap.nodes[codeNode].ref, r.creds.totp.value), LAMBDA f :
               [cx |-> f.cx, thrown |-> f.thrown, error |-> f.error, filled |-> ~f.thrown]))))

\* a page without a code input gives { filled: false }
vaultInjectTotp_softMissing(cx, totpRef) ==
  Await(vaultResolve(cx), LAMBDA r :
    IF r.thrown THEN [cx |-> r.cx, thrown |-> TRUE, error |-> r.error, filled |-> FALSE]
    ELSE IF ~r.creds.totp.present \/ r.creds.totp.value = ""
    THEN [cx |-> r.cx, thrown |-> FALSE, error |-> <<>>, filled |-> FALSE]
    ELSE IF totpRef \notin {NULL, <<>>}
    THEN Await(fillField(r.cx, totpRef, r.creds.totp.value), LAMBDA f :
           [cx |-> f.cx, thrown |-> f.thrown, error |-> f.error, filled |-> ~f.thrown])
    ELSE Await(browserSnapshot(r.cx, "totp"), LAMBDA s :
      IF ~s.snap.ok
      THEN [cx |-> s.cx, thrown |-> TRUE, error |-> <<"Failed to take page snapshot for TOTP injection">>, filled |-> FALSE]
      ELSE Await(FindNode(s.snap.nodes, {"textbox"}, TotpPattern), LAMBDA codeNode :
        IF codeNode = 0
        THEN [cx |-> s.cx, thrown |-> FALSE, error |-> <<>>, filled |-> FALSE]
        ELSE Await(fillField(s.cx, s.snap.nodes[codeNode].ref, r.creds.totp.value), LAMBDA f :
               [cx |-> f.cx, thrown |-> f.thrown, error |-> f.error, filled |-> ~f.thrown]))))

\* vaultInjectTotp: its { filled } when it returns
vaultInjectTotp(cx, totpRef) ==
  Await(vaultResolve(cx), LAMBDA r :
    IF r.thrown THEN [cx |-> r.cx, thrown |-> TRUE, error |-> r.error, filled |-> FALSE]
    ELSE IF ~r.creds.totp.present \/ r.creds.totp.value = ""
    THEN [cx |-> r.cx, thrown |-> FALSE, error |-> <<>>, filled |-> FALSE]
    ELSE IF totpRef \notin {NULL, <<>>}
    THEN Await(fillField(r.cx, totpRef, r.creds.totp.value), LAMBDA f :
           [cx |-> f.cx, thrown |-> f.thrown, error |-> f.error, filled |-> ~f.thrown])
    ELSE Await(browserSnapshot(r.cx, "totp"), LAMBDA s :
      IF ~s.snap.ok
      THEN [cx |-> s.cx, thrown |-> TRUE, error |-> <<"Failed to take page snapshot for TOTP injection">>, filled |-> FALSE]
      ELSE Await(FindNode(s.snap.nodes, {"textbox"}, TotpPattern), LAMBDA codeNode :
        IF codeNode = 0
        THEN [cx |-> s.cx, thrown |-> TRUE,
              error |-> <<"Could not auto-detect TOTP/verification code input field on page">>, filled |-> FALSE]
        ELSE Await(fillField(s.cx, s.snap.nodes[codeNode].ref, r.creds.totp.value), LAMBDA f :
               [cx |-> f.cx, thrown |-> f.thrown, error |-> f.error, filled |-> ~f.thrown]))))

\* ------------------------------------------------------------------------
\* tools/vault-login.ts: vault_login
\* ------------------------------------------------------------------------

ProfileOpenclaw == <<"o","p","e","n","c","l","a","w">>

\* a collaborator call of vault_login that takes no secret
browserCall(cx, op, ref, fails) ==
  IF fails THEN Thrown(Called(cx, op, ref, "", FALSE), <<"browser control request failed">>)
  ELSE Returned(Called(cx, op, ref, "", TRUE))

\* the error leaves execute as an exception
LoginFailed_raises(cx, error) ==
  [cx |-> cx, result |-> [thrown |-> TRUE, error |-> error]]

LoginFailed(cx, error) ==
  [cx |-> cx, result |-> [success |-> FALSE, loggedIn |-> FALSE, error |-> error]]

\* clickFirst, were a missing button an error
clickFirst_required(cx, step, pattern) ==
  Await(browserSnapshot(cx, step), LAMBDA s :
    Await(IF s.snap.ok THEN FindNode(s.snap.nodes, {"button", "link"}, pattern) ELSE 0, LAMBDA button :
      IF button = 0 THEN Thrown(s.cx, <<"Could not find the button">>)
      ELSE browserAct(s.cx, "click", s.snap.nodes[button].ref, "")))

\* the click on the first button or link of the snapshot that the pattern
\* names, when the snapshot is there and has one
clickFirst(cx, step, pattern) ==
  Await(browserSnapshot(cx, step), LAMBDA s :
    Await(IF s.snap.ok THEN FindNode(s.snap.nodes, {"button", "link"}, pattern) ELSE 0, LAMBDA button :
      IF button = 0 THEN Returned(s.cx)
      ELSE browserAct(s.cx, "click", s.snap.nodes[button].ref, "")))

\* the result of a login that went through
LoggedIn(cx, site, profile) ==
  [cx |-> cx, result |-> [success |-> TRUE, loggedIn |-> TRUE, site |-> site, profile |-> profile]]

\* execute from the 2FA check to its return
loginAfterSubmit(cx, site, profile) ==
  Await(browserSnapshot(cx, "post"), LAMBDA post :
    LET has2faPrompt == post.snap.ok /\ FindNode(post.snap.nodes, {"textbox"}, TotpPattern) # 0
    IN IF ~has2faPrompt THEN LoggedIn(post.cx, site, profile)
       ELSE Await(vaultInjectTotp(post.cx, NULL), LAMBDA totpResult :
         IF totpResult.thrown THEN LoginFailed(totpResult.cx, totpResult.error)
         ELSE IF ~totpResult.filled
         THEN LoginFailed(totpResult.cx, <<"2FA was prompted but no TOTP secret is configured for this vault item">>)
         ELSE Await(clickFirst(totpResult.cx, "verify", VerifyPattern), LAMBDA v :
                IF v.thrown THEN LoginFailed(v.cx, v.error) ELSE LoggedIn(v.cx, site, profile))))

\* execute of vault_login
vaultLogin(cx, site, loginUrl) ==
  Await(browserCall(cx, "status", <<>>, FALSE), LAMBDA status :
    Await(IF cx.env.running THEN status ELSE browserCall(status.cx, "start", <<>>, FALSE), LAMBDA start :
      Await(browserCall(start.cx, "navigate", loginTargetUrl(site, loginUrl), cx.env.navFails), LAMBDA nav :
        IF nav.thrown THEN LoginFailed(nav.cx, nav.error)
        ELSE Await(vaultInject(nav.cx, NoFieldMap), LAMBDA inj :
          IF inj.thrown THEN LoginFailed(inj.cx, inj.error)
          ELSE Await(clickFirst(inj.cx, "submit", SubmitPattern), LAMBDA sub :
            IF sub.thrown THEN LoginFailed(sub.cx, sub.error)
            ELSE loginAfterSubmit(sub.cx, site, ProfileOpenclaw))))))

\* ------------------------------------------------------------------------
\* tools/vault-fill.ts: vault_fill
\* ------------------------------------------------------------------------

\* FIELD_ALIASES
FIELD_ALIASES ==
  { <<<<"c","r","e","d","i","t"," ","c","a","r","d"," ","n","u","m","b","e","r">>, FieldCardNumber>>,
    <<<<"c","a","r","d"," ","n","u","m","b","e","r">>, FieldCardNumber>>,
    <<<<"c","c","n">>, FieldCardNumber>>,
    <<<<"c","v","v">>, FieldCvv>>,
    <<<<"c","v","c">>, FieldCvv>>,
    <<<<"s","e","c","u","r","i","t","y"," ","c","o","d","e">>, FieldCvv>>,
    <<<<"e","x","p","i","r","a","t","i","o","n"," ","d","a","t","e">>, <<"e","x","p","i","r","y"," ","d","a","t","e">>>>,
    <<<<"e","x","p"," ","d","a","t","e">>, <<"e","x","p","i","r","y"," ","d","a","t","e">>>>,
    <<<<"e","x","p","i","r","y">>, <<"e","x","p","i","r","y"," ","d","a","t","e">>>>,
    <<<<"c","a","r","d"," ","e","x","p","i","r","y">>, <<"e","x","p","i","r","y"," ","d","a","t","e">>>>,
    <<<<"c","a","r","d","h","o","l","d","e","r"," ","n","a","m","e">>, <<"c","a","r","d","h","o","l","d","e","r"," ","n","a","m","e">>>>,
    <<<<"n","a","m","e"," ","o","n"," ","c","a","r","d">>, <<"c","a","r","d","h","o","l","d","e","r"," ","n","a","m","e">>>>,
    <<<<"z","i","p">>, <<"z","i","p"," ","o","r"," ","p","o","s","t","a","l"," ","c","o","d","e">>>>,
    <<<<"p","o","s","t","a","l"," ","c","o","d","e">>, <<"z","i","p"," ","o","r"," ","p","o","s","t","a","l"," ","c","o","d","e">>>>,
    <<<<"z","i","p"," ","c","o","d","e">>, <<"z","i","p"," ","o","r"," ","p","o","s","t","a","l"," ","c","o","d","e">>>> }

\* resolveFieldName
resolveFieldName(name) ==
  LET hits == {a \in FIELD_ALIASES : a[1] = toLowerCase(name)}
  IN IF hits = {} THEN name ELSE (CHOOSE a \in hits : TRUE)[2]

\* the loop ends at the first entry that fails
RECURSIVE fillLoop_stopsAtFirst(_, _, _, _, _)
fillLoop_stopsAtFirst(cx, fields, i, filledCount, errors) ==
  IF i > Len(fields) THEN [cx |-> cx, filledCount |-> filledCount, errors |-> errors]
  ELSE LET ref == fields[i].ref
           fieldName == fields[i].fieldName
       IN Await(secretsResolve(cx, resolveFieldName(fieldName)), LAMBDA v :
            Await(IF v.thrown THEN Thrown(v.cx, v.error) ELSE browserAct(v.cx, "type", ref, v.value), LAMBDA a :
              IF a.thrown
              THEN [cx |-> a.cx, filledCount |-> filledCount,
                    errors |-> Append(errors, [fieldName |-> fieldName, ref |-> ref, message |-> a.error])]
              ELSE fillLoop_stopsAtFirst(a.cx, fields, i + 1, filledCount + 1, errors)))

\* a field counts as filled once its secret is resolved, whether or not
\* the text could be typed
RECURSIVE fillLoop_countsResolved(_, _, _, _, _)
fillLoop_countsResolved(cx, fields, i, filledCount, errors) ==
  IF i > Len(fields) THEN [cx |-> cx, filledCount |-> filledCount, errors |-> errors]
  ELSE LET ref == fields[i].ref
           fieldName == fields[i].fieldName
       IN Await(secretsResolve(cx, resolveFieldName(fieldName)), LAMBDA v :
            IF v.thrown
            THEN fillLoop_countsResolved(v.cx, fields, i + 1, filledCount,
                                         Append(errors, [fieldName |-> fieldName, ref |-> ref, message |-> v.error]))
            ELSE Await(browserAct(v.cx, "type", ref, v.value), LAMBDA a :
              IF a.thrown
              THEN fillLoop_countsResolved(a.cx, fields, i + 1, filledCount + 1,
                                           Append(errors, [fieldName |-> fieldName, ref |-> ref, message |-> a.error]))
              ELSE fillLoop_countsResolved(a.cx, fields, i + 1, filledCount + 1, errors)))

\* the loop over the entries of `fields`, from entry i on
RECURSIVE fillLoop(_, _, _, _, _)
fillLoop(cx, fields, i, filledCount, errors) ==
  IF i > Len(fields) THEN [cx |-> cx, filledCount |-> filledCount, errors |-> errors]
  ELSE LET ref == fields[i].ref
           fieldName == fields[i].fieldName
       IN Await(secretsResolve(cx, resolveFieldName(fieldName)), LAMBDA v :
            Await(IF v.thrown THEN Thrown(v.cx, v.error) ELSE browserAct(v.cx, "type", ref, v.value), LAMBDA a :
              IF a.thrown
              THEN fillLoop(a.cx, fields, i + 1, filledCount,
                            Append(errors, [fieldName |-> fieldName, ref |-> ref, message |-> a.error]))
              ELSE fillLoop(a.cx, fields, i + 1, filledCount + 1, errors)))

\* execute of vault_fill; `fields` lists the entries of the map in its order
vaultFill(cx, fields) ==
  IF Len(fields) = 0
  THEN [cx |-> cx,
        result |-> [success |-> FALSE,
                    error |-> <<"fields is required and must be a non-empty object mapping refs to vault field names">>]]
  ELSE Await(getClient(cx), LAMBDA c :
         IF c.thrown THEN [cx |-> c.cx, result |-> [success |-> FALSE, error |-> c.error]]
         ELSE Await(fillLoop(c.cx, fields, 1, 0, <<>>), LAMBDA out :
                [cx |-> out.cx,
                 result |-> IF Len(out.errors) > 0
                            THEN [success |-> FALSE, filled |-> out.filledCount, total |-> Len(fields),
                                  errors |-> out.errors]
                            ELSE [success |-> TRUE, filled |-> out.filledCount, total |-> Len(fields)]]))

\* ------------------------------------------------------------------------
\* What the properties need to remember of a run
\* ------------------------------------------------------------------------

\* the handler that ran, the id (or the result url) it was given, the decision
\* it was given, what it returned, and the call it acted on
Op(kind, id, approved, ret, req) ==
  [kind |-> kind, id |-> id, approved |-> approved, ret |-> ret, req |-> req]

\* an external resolve(id, approved) is seen by every call that waits under id;
\* it is accepted for the call whose entry it found
ObserveResolve(rq, id, approved, ret) ==
  [r \in 1..Len(rq) |->
     LET isFirst == reqs[r].id = id /\ reqs[r].pc = "waiting" /\ reqs[r].first = "none"
         isOwner == ret /\ pendingApprovals[id].req = r
     IN [rq[r] EXCEPT !.first = IF isFirst THEN (IF approved THEN "ext_true" ELSE "ext_false") ELSE @,
                      !.accepted = IF isOwner THEN (IF approved THEN "true" ELSE "false") ELSE @]]

ObserveTimeout(rq, r) ==
  [rq EXCEPT ![r].first = IF @ = "none" THEN "timer" ELSE @]
\* ------------------------------------------------------------------------
\* The tool calls the agent may issue
\* ------------------------------------------------------------------------

NoCall == [toolName |-> "none"]

NoProbe == [fn |-> "none"]

NoVerdict == [event |-> NoCall, url |-> NULL, pageSensitive |-> FALSE, block |-> FALSE, blockReason |-> <<>>]

VaultLoginEvent(site, loginUrl) ==
  [toolName |-> "vault_login", action |-> "", targetUrl |-> NULL, request |-> NoRequest,
   site |-> site, loginUrl |-> loginUrl]

UrlBlank == <<"a","b","o","u","t",":","b","l","a","n","k">>

ActPlaceOrder == Event("browser", "act", NULL, Request(TxtPlaceOrder, RefE12, NULL))

ActNext == Event("browser", "act", NULL, Request(TxtNext, RefE12, NULL))

GateEvents ==
  { Event("browser", "navigate", UrlCheckout, NoRequest),
    Event("browser", "navigate", UrlBlog, NoRequest),
    Event("browser", "navigate", UrlBare, NoRequest),
    ActPlaceOrder,
    ActNext,
    Event("browser", "snapshot", NULL, NoRequest),
    Event("exec", "act", NULL, Request(TxtPlaceOrder, NULL, NULL)),
    VaultLoginEvent(SiteShop, NULL) }

\* the same calls, and read-only browser actions whose parameters carry
\* purchase text
HookEvents ==
  GateEvents \cup
  { Event("browser", "screenshot", NULL, Request(TxtPlaceOrder, RefE12, NULL)),
    Event("browser", "status", UrlCheckout, Request(TxtPlaceOrder, NULL, NULL)) }

\* where the page is once the call has run: a navigate lands on its target
\* or is redirected, vault_login drives the browser to the login page, a
\* click may lead to another page
PagesAfter(event) ==
  IF event.toolName = "vault_login" THEN {loginTargetUrl(event.site, event.loginUrl)}
  ELSE IF event.toolName # "browser" THEN {pageUrl}
  ELSE IF event.action = "navigate" /\ event.targetUrl # NULL THEN {event.targetUrl, UrlBrowse}
  ELSE IF event.action = "act" THEN {pageUrl, UrlCheckout, UrlBlog}
  ELSE {pageUrl}

\* the `url` field of the call's result: the browser tool reports the page
\* it ends on whenever the call moved the page elsewhere than a navigate's
\* target, and may leave the field out otherwise; vault_login returns no url;
\* the result of another tool may carry a url of its own
ResultUrls(event, newPage) ==
  IF event.toolName = "vault_login" THEN {NULL}
  ELSE IF event.toolName # "browser" THEN {NULL, UrlCheckout}
  ELSE IF event.action = "navigate" /\ event.targetUrl # NULL
       THEN (IF newPage = event.targetUrl THEN {NULL, newPage} ELSE {newPage})
  ELSE IF newPage = pageUrl THEN {NULL, newPage} ELSE {newPage}

\* ------------------------------------------------------------------------
\* The vault items, the pages and the collaborators' answers of the vault calls
\* ------------------------------------------------------------------------

\* the two runs a vault call is followed in: the same call against the same
\* collaborators, on vault items that differ only in the values they hold
Runs == {"a", "b"}

\* the values of the item's fields in run a, and those they may have in run b
ValuesA ==
  [username |-> "alice", password |-> "hunter2", totp |-> "123456", card |-> "4111111111111111"]

ValuesB(totp) ==
  [username |-> "bob", password |-> "letmein", totp |-> totp, card |-> "5500000000000004"]

TotpValuesB == {"654321", ""}

\* a vault item: the username is always there, the other fields may be missing
Store(values, hasUsername, hasPassword, hasTotp, hasCard) ==
  [f \in {FieldUsername, FieldPassword, FieldTotp, FieldCardNumber} |->
     IF f = FieldUsername THEN (IF hasUsername THEN Secret(values.username) ELSE Absent)
     ELSE IF f = FieldPassword THEN (IF hasPassword THEN Secret(values.password) ELSE Absent)
     ELSE IF f = FieldTotp THEN (IF hasTotp THEN Secret(values.totp) ELSE Absent)
     ELSE (IF hasCard THEN Secret(values.card) ELSE Absent)]

Node(role, name, ref) == [role |-> role, name |-> name, ref |-> ref]

\* the aria snapshots the browser may return
LoginSnap ==
  [ok |-> TRUE,
   nodes |-> << Node("textbox", <<"E","m","a","i","l"," ","a","d","d","r","e","s","s">>, <<"e","1">>),
                Node("textbox", <<"P","a","s","s","w","o","r","d">>, <<"e","2">>),
                Node("button", <<"S","i","g","n"," ","i","n">>, <<"e","3">>) >>]

TotpSnap ==
  [ok |-> TRUE,
   nodes |-> << Node("textbox", <<"V","e","r","i","f","i","c","a","t","i","o","n"," ","c","o","d","e">>, <<"e","4">>),
                Node("button", <<"V","e","r","i","f","y">>, <<"e","5">>) >>]

HomeSnap == [ok |-> TRUE, nodes |-> << Node("link", <<"Y","o","u","r"," ","o","r","d","e","r","s">>, <<"e","6">>) >>]

FailedSnap == [ok |-> FALSE, nodes |-> <<>>]

\* a form with two e-mail inputs and no button
SignupSnap ==
  [ok |-> TRUE,
   nodes |-> << Node("textbox", <<"E","m","a","i","l"," ","a","d","d","r","e","s","s">>, <<"e","1">>),
                Node("textbox", <<"C","o","n","f","i","r","m"," ","e","m","a","i","l">>, <<"e","7">>),
                Node("textbox", <<"P","a","s","s","w","o","r","d">>, <<"e","2">>) >>]

Snaps == {LoginSnap, TotpSnap, HomeSnap, FailedSnap, SignupSnap}

\* a 2FA page that submits on its own: the code input and no button
CodeOnlySnap ==
  [ok |-> TRUE, nodes |-> << Node("textbox", <<"A","u","t","h","e","n","t","i","c","a","t","i","o","n"," ","c","o","d","e">>, <<"e","4">>) >>]

\* what the page may show after the login form has been submitted
PostSnaps == Snaps \cup {CodeOnlySnap}

\* the first step of a two-step login: the e-mail input alone
EmailStepSnap ==
  [ok |-> TRUE,
   nodes |-> << Node("textbox", <<"E","m","a","i","l"," ","o","r"," ","p","h","o","n","e">>, <<"e","1">>), Node("button", <<"N","e","x","t">>, <<"e","3">>) >>]

\* a page with a password input and no username input
PasswordOnlySnap == [ok |-> TRUE, nodes |-> << Node("textbox", <<"P","a","s","s","w","o","r","d">>, <<"e","2">>) >>]

\* the second step of a two-step login: one input, named after both
PasswordStepSnap ==
  [ok |-> TRUE,
   nodes |-> << Node("textbox", <<"L","o","g","i","n"," ","p","a","s","s","w","o","r","d">>, <<"e","2">>), Node("button", <<"S","i","g","n"," ","i","n">>, <<"e","3">>) >>]

\* the pages vaultInject is called on
InjectSnaps == Snaps \cup {EmailStepSnap, PasswordOnlySnap, PasswordStepSnap}

\* the collaborators' answers during one call: whether the service token
\* is set, whether the browser runs, whether the navigation fails, the page
\* when the credentials are typed, when the submit button is looked for and
\* after the login form is submitted, which browserAct of the call fails
\* (0: none) and whether that error quotes the typed text
Env(token, running, navFails, page, submitPage, postPage, failAct, echo) ==
  [token |-> token, running |-> running, navFails |-> navFails,
   snaps |-> [inject |-> page, submit |-> submitPage, post |-> postPage, totp |-> postPage, verify |-> postPage],
   failAct |-> failAct, echo |-> echo]

\* the collaborators of a call that reads one page and needs no navigation
PageEnv(token, page, failAct, echo) == Env(token, TRUE, FALSE, page, page, page, failAct, echo)

\* the browserAct calls of one tool call that may fail
MaxFailAct == 5

\* the entries a `fields` map may have, and how many
MaxFields == 2

FillEntries ==
  { [ref |-> <<"e","1","4">>, fieldName |-> <<"u","s","e","r","n","a","m","e">>],
    [ref |-> <<"e","1","5">>, fieldName |-> <<"C","V","V">>],
    [ref |-> <<"e","2","0">>, fieldName |-> <<"C","a","r","d"," ","N","u","m","b","e","r">>] }

FieldMaps ==
  { NoFieldMap,
    [username |-> <<"e","1">>, password |-> <<"e","2">>],
    [username |-> <<"e","9">>, password |-> NULL] }

NoToolResult == [none |-> TRUE]

NoVaultCall == [tool |-> "none"]

\* ------------------------------------------------------------------------
\* Actions
\* ------------------------------------------------------------------------

Init ==
  /\ currentUrl = NULL
  /\ lastKnownUrl = NULL
  /\ pageUrl = UrlBlank
  /\ call = NoCall
  /\ verdict = NoVerdict
  /\ pendingApprovals = <<>>
  /\ reqs = <<>>
  /\ lastOp = Op("init", <<>>, FALSE, FALSE, 0)
  /\ probe = NoProbe
  /\ secrets = [r \in Runs |-> <<>>]
  /\ clientPromise = [r \in Runs |-> NoClient]
  /\ toolResult = [r \in Runs |-> NoToolResult]
  /\ trace = [r \in Runs |-> <<>>]
  /\ vaultCall = NoVaultCall

\* the agent issues a tool call: the before_tool_call hook (the guard) runs
beforeToolCall(event) ==
  /\ call = NoCall
  /\ \E out \in {guardHandler(event)} :
        /\ lastKnownUrl' = out.lastKnownUrl
        /\ verdict' = [event |-> event, url |-> getCurrentUrl, pageSensitive |-> isSensitiveDomain(pageUrl, sensitiveDomains),
                       block |-> out.block, blockReason |-> out.blockReason]
        /\ call' = IF out.block THEN NoCall ELSE event
  /\ lastOp' = Op("before_tool_call", <<>>, FALSE, FALSE, 0)
  /\ UNCHANGED <<currentUrl, pageUrl, pendingApprovals, reqs, vaultVars, probe>>

\* the call has run: the after_tool_call hook (the tracker) sees its result
afterToolCall(newPage, resultUrl) ==
  /\ call # NoCall
  /\ newPage \in PagesAfter(call)
  /\ resultUrl \in ResultUrls(call, newPage)
  /\ pageUrl' = newPage
  /\ currentUrl' = urlTrackerHandler(call, resultUrl)
  /\ call' = NoCall
  /\ lastOp' = Op("after_tool_call", resultUrl, FALSE, FALSE, 0)
  /\ UNCHANGED <<lastKnownUrl, verdict, pendingApprovals, reqs, vaultVars, probe>>

\* the agent calls confirm_action (at most max calls in a run)
execute(max, id, takeScreenshot, cfg) ==
  /\ Len(reqs) < max
  /\ reqs' = Append(reqs, [executeStart(id, takeScreenshot, cfg) EXCEPT
                              !.blockedBefore = verdict.block,
                              !.cfg = IF takeScreenshot THEN "none" ELSE cfg])
  /\ lastOp' = Op("execute", id, FALSE, FALSE, Len(reqs) + 1)
  /\ UNCHANGED <<pendingApprovals, gateVars, vaultVars, probe>>

\* the screenshot of call r is back (or has failed)
screenshotDone(r, shot, cfg) ==
  /\ reqs[r].pc = "screenshot"
  /\ reqs' = [reqs EXCEPT ![r] = [executeAfterScreenshot(reqs[r], shot, cfg) EXCEPT !.cfg = cfg]]
  /\ lastOp' = Op("screenshot", reqs[r].id, FALSE, FALSE, r)
  /\ UNCHANGED <<pendingApprovals, gateVars, vaultVars, probe>>

\* the notification channel answers the approval message of call r
deliverDone(r, delivered) ==
  /\ reqs[r].pc = "deliver"
  /\ \E out \in {executeAfterDeliver(r, delivered)} :
        pendingApprovals' = out.pending /\ reqs' = out.reqs
  /\ lastOp' = Op("deliver", reqs[r].id, FALSE, delivered, r)
  /\ UNCHANGED <<gateVars, vaultVars, probe>>

\* the human sends /approve with the given arguments
approveCommand(args) ==
  /\ \E out \in {approveHandler(args)} :
        /\ pendingApprovals' = out.pending
        /\ reqs' = IF out.called THEN ObserveResolve(out.reqs, out.id, out.approved, out.ret) ELSE out.reqs
        /\ lastOp' = Op(IF out.called THEN "resolve" ELSE "usage", out.id, out.approved, out.ret,
                        IF out.ret THEN pendingApprovals[out.id].req ELSE 0)
  /\ UNCHANGED <<gateVars, vaultVars, probe>>

\* the timer of call r expires
timerFire(r) ==
  /\ reqs[r].timer = "armed"
  /\ \E out \in {timeoutCallback(r)} :
        pendingApprovals' = out.pending /\ reqs' = ObserveTimeout(out.reqs, r)
  /\ lastOp' = Op("timeout", reqs[r].id, FALSE, FALSE, r)
  /\ UNCHANGED <<gateVars, vaultVars, probe>>

\* the notification channel answers the outcome notice of call r
notifyDone(r, delivered) ==
  /\ reqs[r].pc = "notify"
  /\ reqs' = [reqs EXCEPT ![r] = executeAfterNotice(reqs[r], delivered)]
  /\ lastOp' = Op("notify", reqs[r].id, FALSE, delivered, r)
  /\ UNCHANGED <<pendingApprovals, gateVars, vaultVars, probe>>

ShotOutcomes == {"ok", "notok", "throws"}

\* the approval ledger and confirm_action alone
Next ==
  \/ \E id \in Ids, takeScreenshot \in BOOLEAN, cfg \in CfgOutcomes : execute(MaxReqs, id, takeScreenshot, cfg)
  \/ \E r \in 1..Len(reqs), shot \in ShotOutcomes, cfg \in CfgOutcomes : screenshotDone(r, shot, cfg)
  \/ \E r \in 1..Len(reqs), delivered \in BOOLEAN : deliverDone(r, delivered)
  \/ \E args \in CommandArgs : approveCommand(args)
  \/ \E r \in 1..Len(reqs) : timerFire(r)
  \/ \E r \in 1..Len(reqs), delivered \in BOOLEAN : notifyDone(r, delivered)

Spec == Init /\ [][Next]_vars

\* the hooks on the agent's tool calls alone
HooksNext ==
  \/ \E event \in HookEvents : beforeToolCall(event)
  \/ \E newPage \in PagesAfter(call) : \E resultUrl \in ResultUrls(call, newPage) : afterToolCall(newPage, resultUrl)

SpecHooks == Init /\ [][HooksNext]_vars

\* the command lines the human sends in the gateway specification
GateCommandArgs == {CmdYesA, CmdNoA}

\* the whole gateway: the hooks, confirm_action (asked without a screenshot),
\* /approve and the timers
GatewayNext ==
  \/ \E event \in GateEvents : beforeToolCall(event)
  \/ \E newPage \in PagesAfter(call) : \E resultUrl \in ResultUrls(call, newPage) : afterToolCall(newPage, resultUrl)
  \/ \E cfg \in CfgOutcomes : execute(MaxGateReqs, IdA, FALSE, cfg)
  \/ \E r \in 1..Len(reqs), delivered \in BOOLEAN : deliverDone(r, delivered)
  \/ \E args \in GateCommandArgs : approveCommand(args)
  \/ \E r \in 1..Len(reqs) : timerFire(r)
  \/ \E r \in 1..Len(reqs), delivered \in BOOLEAN : notifyDone(r, delivered)

SpecGateway == Init /\ [][GatewayNext]_vars

\* the calls of a run in which timers and notices are scheduled
MaxLiveReqs == 2

\* the ledger and confirm_action from the hand-over of the approval message
\* on, with the commands on one id
LiveNext ==
  \/ \E id \in Ids, cfg \in CfgOutcomes : execute(MaxLiveReqs, id, FALSE, cfg)
  \/ \E r \in 1..Len(reqs), delivered \in BOOLEAN : deliverDone(r, delivered)
  \/ \E args \in GateCommandArgs : approveCommand(args)
  \/ \E r \in 1..Len(reqs) : timerFire(r)
  \/ \E r \in 1..Len(reqs), delivered \in BOOLEAN : notifyDone(r, delivered)

\* the same, with the scheduling the runtime gives: an armed timer that is not
\* cleared expires, and the delivery of an outcome notice settles (fulfilled
\* or rejected); no command need ever arrive
SpecLive ==
  /\ Init /\ [][LiveNext]_vars
  /\ \A r \in 1..MaxLiveReqs : WF_vars(r <= Len(reqs) /\ timerFire(r))
  /\ \A r \in 1..MaxLiveReqs : WF_vars(r <= Len(reqs) /\ \E delivered \in BOOLEAN : notifyDone(r, delivered))

\* ------------------------------------------------------------------------
\* The vault calls
\* ------------------------------------------------------------------------

\* the context of a call in one run
Cx(run, env) == [store |-> secrets[run], client |-> clientPromise[run], trace |-> <<>>, env |-> env]

\* the vault items at the start: both runs hold the same fields
VaultItems(usernames) ==
  \E hasUsername \in usernames, hasPassword \in BOOLEAN, hasTotp \in BOOLEAN, hasCard \in BOOLEAN, totpB \in TotpValuesB :
    secrets = [r \in Runs |->
                 Store(IF r = "a" THEN ValuesA ELSE ValuesB(totpB), hasUsername, hasPassword, hasTotp, hasCard)]

\* the state before the first vault call, the vault items left open
VaultStart ==
  /\ clientPromise = [r \in Runs |-> NoClient]
  /\ toolResult = [r \in Runs |-> NoToolResult]
  /\ trace = [r \in Runs |-> <<>>]
  /\ vaultCall = NoVaultCall
  /\ currentUrl = NULL
  /\ lastKnownUrl = NULL
  /\ pageUrl = UrlBlank
  /\ call = NoCall
  /\ verdict = NoVerdict
  /\ pendingApprovals = <<>>
  /\ reqs = <<>>
  /\ lastOp = Op("init", <<>>, FALSE, FALSE, 0)
  /\ probe = NoProbe

\* items that have a username
VaultInit == VaultItems({TRUE}) /\ VaultStart

\* items with and without a username
InjectInit == VaultItems(BOOLEAN) /\ VaultStart

\* a vault call has run to its end in both runs
vaultDone(tool, args, env, out) ==
  /\ toolResult' = [r \in Runs |-> out[r].result]
  /\ trace' = [r \in Runs |-> out[r].cx.trace]
  /\ clientPromise' = [r \in Runs |-> out[r].cx.client]
  /\ vaultCall' = [tool |-> tool, args |-> args, env |-> env]
  /\ UNCHANGED <<secrets, gateVars, ledgerVars, lastOp, probe>>

\* the agent calls vault_login (a vault call starts once the result of the
\* one before has been taken)
vaultLoginCall(site, loginUrl, token, running, navFails, page, submitPage, postPage, failAct, echo) ==
  /\ vaultCall = NoVaultCall
  /\ \E env \in {Env(token, running, navFails, page, submitPage, postPage, failAct, echo)} :
       \E out \in {[r \in Runs |-> vaultLogin(Cx(r, env), site, loginUrl)]} :
         vaultDone("vault_login", [site |-> site, loginUrl |-> loginUrl], env, out)

\* the agent calls vault_fill
vaultFillCall(fields, token, failAct, echo) ==
  /\ vaultCall = NoVaultCall
  /\ \E env \in {PageEnv(token, HomeSnap, failAct, echo)} :
       \E out \in {[r \in Runs |-> vaultFill(Cx(r, env), fields)]} :
         vaultDone("vault_fill", fields, env, out)

\* a caller invokes vaultInject
vaultInjectCall(fieldMap, token, page, failAct, echo) ==
  /\ vaultCall = NoVaultCall
  /\ \E env \in {PageEnv(token, page, failAct, echo)} :
       \E out \in {[r \in Runs |->
                      LET o == vaultInject(Cx(r, env), fieldMap)
                      IN [cx |-> o.cx,
                          result |-> IF o.thrown THEN [thrown |-> TRUE, error |-> o.error] ELSE [filled |-> TRUE]]]} :
         vaultDone("vaultInject", fieldMap, env, out)

\* a caller invokes vaultInjectTotp
vaultInjectTotpCall(totpRef, token, page, failAct, echo) ==
  /\ vaultCall = NoVaultCall
  /\ \E env \in {PageEnv(token, page, failAct, echo)} :
       \E out \in {[r \in Runs |->
                      LET o == vaultInjectTotp(Cx(r, env), totpRef)
                      IN [cx |-> o.cx,
                          result |-> IF o.thrown THEN [thrown |-> TRUE, error |-> o.error] ELSE [filled |-> o.filled]]]} :
         vaultDone("vaultInjectTotp", totpRef, env, out)

\* a caller invokes vaultResolve
vaultResolveCall(token) ==
  /\ vaultCall = NoVaultCall
  /\ \E env \in {PageEnv(token, HomeSnap, 0, FALSE)} :
       \E out \in {[r \in Runs |->
                      LET o == vaultResolve(Cx(r, env))
                      IN [cx |-> o.cx,
                          result |-> IF o.thrown THEN [thrown |-> TRUE, error |-> o.error] ELSE [creds |-> o.creds]]]} :
         vaultDone("vaultResolve", <<>>, env, out)

\* the caller takes the result of the vault call
vaultResultTaken ==
  /\ vaultCall # NoVaultCall
  /\ vaultCall' = NoVaultCall
  /\ toolResult' = [r \in Runs |-> NoToolResult]
  /\ trace' = [r \in Runs |-> <<>>]
  /\ UNCHANGED <<secrets, clientPromise, gateVars, ledgerVars, lastOp, probe>>

\* the field maps of vault_fill: up to MaxFields entries, in any order
FieldSeqs == UNION {[1..n -> FillEntries] : n \in 0..MaxFields}

\* which browserAct fails, and whether its error quotes the typed text
ActFailures == {<<0, FALSE>>} \cup ((1..MaxFailAct) \X BOOLEAN)

\* the vault tools alone
VaultNext ==
  \/ \E token \in BOOLEAN, running \in BOOLEAN, navFails \in BOOLEAN, page \in Snaps, postPage \in Snaps, f \in ActFailures :
        vaultLoginCall(SiteShop, NULL, token, running, navFails, page, page, postPage, f[1], f[2])
  \/ \E fields \in FieldSeqs, token \in BOOLEAN, f \in ActFailures :
        vaultFillCall(fields, token, f[1], f[2])
  \/ \E fieldMap \in FieldMaps, token \in BOOLEAN, page \in Snaps, f \in ActFailures :
        vaultInjectCall(fieldMap, token, page, f[1], f[2])
  \/ \E totpRef \in {NULL, <<"e","4">>}, token \in BOOLEAN, page \in Snaps, f \in ActFailures :
        vaultInjectTotpCall(totpRef, token, page, f[1], f[2])
  \/ vaultResultTaken

SpecVault == VaultInit /\ [][VaultNext]_vars

\* vaultInject and vaultInjectTotp called on their own
InjectNext ==
  \/ \E fieldMap \in FieldMaps, token \in BOOLEAN, page \in InjectSnaps, failAct \in 0..MaxFailAct :
        vaultInjectCall(fieldMap, token, page, failAct, FALSE)
  \/ \E totpRef \in {NULL, <<"e","4">>}, token \in BOOLEAN, page \in Snaps, failAct \in 0..MaxFailAct :
        vaultInjectTotpCall(totpRef, token, page, failAct, FALSE)
  \/ \E token \in BOOLEAN : vaultResolveCall(token)
  \/ vaultResultTaken

SpecInject == InjectInit /\ [][InjectNext]_vars

\* the submit page as the form page, or a snapshot that fails
SubmitPages(page) == {page, FailedSnap}

\* the two tools the agent calls, vault_login and vault_fill
ToolsNext ==
  \/ \E token \in BOOLEAN, running \in BOOLEAN, navFails \in BOOLEAN, page \in Snaps, postPage \in PostSnaps, failAct \in 0..MaxFailAct :
        \E submitPage \in SubmitPages(page) :
          vaultLoginCall(SiteShop, NULL, token, running, navFails, page, submitPage, postPage, failAct, FALSE)
  \/ \E fields \in FieldSeqs, token \in BOOLEAN, failAct \in 0..MaxFailAct :
        vaultFillCall(fields, token, failAct, FALSE)
  \/ vaultResultTaken

SpecTools == VaultInit /\ [][ToolsNext]_vars

\* the requests the command lines below act on
MaxCmdReqs == 1

\* the parts a command line is put together from: leading blanks, the id
\* (empty: a blank line), the second token (null: none), and what follows it
ApproveParts ==
  [lead : {<<>>}, id : {IdA, IdUnknown}, rest : {<<>>},
   token : {NULL, Yes, Y, Approve, <<"Y","E","S">>, <<"A","p","p","r","o","v","e">>,
            <<"n","o">>, <<"a","p","p","r","o","v","e","d">>}]
  \cup [lead : {<<" ">>}, id : {IdA}, rest : {<<" ","n","o">>}, token : {<<"Y","E","S">>, <<"n","o">>}]
  \cup [lead : {<<>>, <<" ">>}, id : {<<>>}, rest : {<<>>}, token : {NULL}]

BuildArgs(parts) ==
  parts.lead \o parts.id \o (IF parts.token = NULL THEN <<>> ELSE <<" "," ">> \o parts.token \o parts.rest)

\* the human sends the command line put together from the parts; the line
\* and the reply are set aside
commandLine(parts) ==
  /\ \E out \in {approveHandler(BuildArgs(parts))} :
        /\ pendingApprovals' = out.pending
        /\ reqs' = IF out.called THEN ObserveResolve(out.reqs, out.id, out.approved, out.ret) ELSE out.reqs
        /\ lastOp' = Op(IF out.called THEN "resolve" ELSE "usage", out.id, out.approved, out.ret,
                        IF out.ret THEN pendingApprovals[out.id].req ELSE 0)
        /\ probe' = [fn |-> "approve", lead |-> parts.lead, id |-> parts.id, token |-> parts.token,
                     rest |-> parts.rest, reply |-> out.reply]
  /\ UNCHANGED <<gateVars, vaultVars>>

\* the ledger and confirm_action (with a target to write to), with every
\* command line above
CommandNext ==
  \/ \E id \in Ids : execute(MaxCmdReqs, id, FALSE, "target")
  \/ \E r \in 1..Len(reqs), delivered \in BOOLEAN : deliverDone(r, delivered)
  \/ \E parts \in ApproveParts : commandLine(parts)
  \/ \E r \in 1..Len(reqs) : timerFire(r)
  \/ \E r \in 1..Len(reqs), delivered \in BOOLEAN : notifyDone(r, delivered)

SpecCommand == Init /\ [][CommandNext]_vars

\* ------------------------------------------------------------------------
\* isSensitiveDomain applied on its own
\* ------------------------------------------------------------------------

\* the sensitiveDomains lists of two configurations
DomainConfigs == {sensitiveDomains, <<<<"P","a","y",".","T","e","s","t">>, ShopTest>>}

\* what may stand in front of the registered name of a host: nothing or
\* labels that end in a dot, or characters glued to the name
SubdomainLabels == {<<>>, WwwDot, <<"W","W","W",".">>, <<"s","u","b",".">>, <<"a",".","b",".">>}

GluedLabels == {<<"n","o","t">>, <<"m","y","-">>}

\* the parts a URL is put together from: scheme, userinfo, what stands in
\* front of the registered name, the registered name, what follows the host
UrlParts ==
  [scheme : {HttpsPrefix, HttpPrefix, <<"H","T","T","P","S",":","/","/">>},
   userinfo : {<<>>, <<"s","h","o","p",".","t","e","s","t","@">>},
   label : SubdomainLabels \cup GluedLabels,
   base : {ShopTest, <<"S","H","O","P",".","T","e","s","t">>, <<"p","a","y",".","t","e","s","t">>, <<"s","h","o","p",".","t","e","s","t",".","e","v","i","l",".","e","x","a","m","p","l","e">>, <<"s","h","o","p",".","t","e","s">>},
   tail : {<<>>, <<"/">>, <<":","8","4","4","3","/","c","a","r","t">>, <<"/","?","n","e","x","t","=","s","h","o","p",".","t","e","s","t">>, <<"#",".","s","h","o","p",".","t","e","s","t">>}]

BuildUrl(parts) == parts.scheme \o parts.userinfo \o parts.label \o parts.base \o parts.tail

\* isSensitiveDomain(url, domains) is called on a URL
classify(parts, domains) ==
  /\ probe = NoProbe
  /\ \E url \in {BuildUrl(parts)} :
        probe' = [fn |-> "isSensitiveDomain", parts |-> parts, url |-> url, domains |-> domains,
                  out |-> isSensitiveDomain(url, domains)]
  /\ UNCHANGED <<gateVars, ledgerVars, lastOp, vaultVars>>

\* the caller has used the answer
probeTaken ==
  /\ probe # NoProbe
  /\ probe' = NoProbe
  /\ UNCHANGED <<gateVars, ledgerVars, lastOp, vaultVars>>

ClassifyNext ==
  \/ \E parts \in UrlParts, domains \in DomainConfigs : classify(parts, domains)
  \/ probeTaken

SpecClassify == Init /\ [][ClassifyNext]_vars

\* ------------------------------------------------------------------------
\* The guard handler taken on its own: opts.getCurrentUrl is whatever
\* function its caller hands to createBrowserGuardHandler
\* ------------------------------------------------------------------------

\* the URLs the getter may answer, null included
TrackerAnswers == {NULL, UrlCheckout, UrlBlog}

GuardEvents ==
  { Event("browser", "navigate", UrlCheckout, NoRequest),
    Event("browser", "navigate", UrlBlog, NoRequest),
    ActPlaceOrder,
    ActNext,
    Event("browser", "act", UrlCheckout, Request(TxtNext, RefE12, NULL)) }

\* the getter's next answer
trackerReports(url) ==
  /\ call = NoCall
  /\ url # currentUrl
  /\ currentUrl' = url
  /\ lastOp' = Op("tracker", <<>>, FALSE, FALSE, 0)
  /\ UNCHANGED <<lastKnownUrl, pageUrl, call, verdict, ledgerVars, vaultVars, probe>>

\* one verdict of the guard is set aside, with the inputs it was given
noteVerdict ==
  /\ probe = NoProbe
  /\ verdict # NoVerdict
  /\ probe' = [fn |-> "guard", event |-> verdict.event, url |-> verdict.url,
               block |-> verdict.block, blockReason |-> verdict.blockReason]
  /\ lastOp' = Op("note", <<>>, FALSE, FALSE, 0)
  /\ UNCHANGED <<gateVars, ledgerVars, vaultVars>>

GuardNext ==
  \/ \E event \in GuardEvents : beforeToolCall(event)
  \/ \E newPage \in PagesAfter(call) : \E resultUrl \in ResultUrls(call, newPage) : afterToolCall(newPage, resultUrl)
  \/ \E url \in TrackerAnswers : trackerReports(url)
  \/ noteVerdict

SpecGuard == Init /\ [][GuardNext]_vars

\* ------------------------------------------------------------------------
\* Voice calls: the caller's trust tier (voice response generator)
\* ------------------------------------------------------------------------

Digits == {"0","1","2","3","4","5","6","7","8","9"}

\* s.replace(/\D/g, "")
stripNonDigits(s) == SelectSeq(s, LAMBDA c : c \in Digits)

\* JavaScript truthiness of a string | null | undefined
Truthy(s) == s # NULL /\ s # <<>>

FriendEntry(name, phone, relationship) == [name |-> name, phone |-> phone, relationship |-> relationship]

\* rel.includes("wife") || rel.includes("spouse") || rel.includes("partner")
isTrustedRelationship(relationship) ==
  LET rel == toLowerCase(IF relationship = NULL THEN <<>> ELSE relationship)
  IN includes(rel, <<"w","i","f","e">>) \/ includes(rel, <<"s","p","o","u","s","e">>) \/ includes(rel, <<"p","a","r","t","n","e","r">>)

TierResult(tier, callerName) == [tier |-> tier, callerName |-> callerName]

\* the loop over Object.values(friends.friends), from entry i on
RECURSIVE friendsLoop(_, _, _)
friendsLoop(normalizedFrom, entries, i) ==
  IF i > Len(entries) THEN TierResult("stranger", NULL)
  ELSE IF ~Truthy(entries[i].phone) THEN friendsLoop(normalizedFrom, entries, i + 1)
  ELSE IF normalizedFrom # stripNonDigits(entries[i].phone) THEN friendsLoop(normalizedFrom, entries, i + 1)
  ELSE IF isTrustedRelationship(entries[i].relationship) THEN TierResult("trusted", entries[i].name)
  ELSE TierResult("friend", entries[i].name)

\* resolveTrustTier({from, ownerNumber, workspaceDir}); friendsFile is what
\* reading and parsing friends.json gives: NULL when the file is missing or
\* invalid or has no `friends`, else the values of `friends` in key order
resolveTrustTier(from, ownerNumber, friendsFile) ==
  LET normalizedFrom == stripNonDigits(from)
  IN IF Truthy(ownerNumber) /\ normalizedFrom = stripNonDigits(ownerNumber)
       THEN TierResult("owner", NULL)
     ELSE IF friendsFile = NULL THEN TierResult("stranger", NULL)
     ELSE friendsLoop(normalizedFrom, friendsFile, 1)

\* voiceConfig.ownerNumber ?? voiceConfig.toNumber
configuredOwner(voiceConfig) ==
  IF voiceConfig.ownerNumber # NULL THEN voiceConfig.ownerNumber ELSE voiceConfig.toNumber

\* generateVoiceResponse up to the call of runEmbeddedPiAgent: the
\* parameters of the agent run that depend on the caller
generateVoiceResponse(voiceConfig, from, friendsFile) ==
  LET ownerNumber == configuredOwner(voiceConfig)
      t == resolveTrustTier(from, ownerNumber, friendsFile)
  IN [tier |-> t.tier, callerName |-> t.callerName,
      senderIsOwner |-> t.tier = "owner",
      ownerNumbers |-> IF Truthy(ownerNumber) THEN <<ownerNumber>> ELSE <<>>,
      disableTools |-> t.tier = "stranger"]

NumOwner == <<"+","1"," ","(","5","5","5",")"," ","0","1","0","1">>
NumOwnerPlain == <<"1","5","5","5","0","1","0","1">>
NumBob == <<"+","1","5","5","5","0","2","0","2">>
NumBobDashed == <<"1","-","5","5","5","-","0","2","0","2">>
NumAnn == <<"+","1","5","5","5","0","3","0","3">>
NumUnknown == <<"+","1","5","5","5","0","9","0","9">>
NumAnonymous == <<"a","n","o","n","y","m","o","u","s">>

\* the caller ids of incoming calls
Callers == {NumOwnerPlain, NumBob, NumBobDashed, NumAnn, NumUnknown, NumAnonymous}

\* voiceConfig.ownerNumber and voiceConfig.toNumber
VoiceConfigs == [ownerNumber : {NULL, <<>>, NumOwner}, toNumber : {NULL, NumOwner, NumBob}]

Bob == FriendEntry(<<"B","o","b">>, NumBob, <<"c","o","l","l","e","g","e"," ","f","r","i","e","n","d">>)
Ann == FriendEntry(<<"A","n","n">>, NumAnn, <<"W","i","f","e">>)

\* friends.json: missing, empty, and lists of entries; two entries may carry
\* one number (a shared line)
FriendsFiles ==
  { NULL, <<>>,
    <<Bob, Ann>>,
    <<FriendEntry(<<"C","y">>, NULL, <<"w","i","f","e">>), FriendEntry(<<"D","i">>, NumAnn, NULL), Bob>>,
    <<FriendEntry(<<"E","v","e">>, NumOwnerPlain, <<"L","i","f","e"," ","P","a","r","t","n","e","r">>), FriendEntry(NULL, NumBobDashed, <<"S","P","O","U","S","E">>)>>,
    <<Bob, FriendEntry(<<"A","n","n">>, NumBobDashed, <<"w","i","f","e">>)>>,
    <<FriendEntry(<<"A","n","n">>, NumBobDashed, <<"w","i","f","e">>), Bob>> }

\* a call comes in and the voice response generator starts the agent run
voiceCall(voiceConfig, from, friendsFile) ==
  /\ probe = NoProbe
  /\ probe' = [fn |-> "generateVoiceResponse", voiceConfig |-> voiceConfig, from |-> from,
               friendsFile |-> friendsFile, run |-> generateVoiceResponse(voiceConfig, from, friendsFile)]
  /\ UNCHANGED <<gateVars, ledgerVars, lastOp, vaultVars>>

VoiceNext ==
  \/ \E voiceConfig \in VoiceConfigs, from \in Callers, friendsFile \in FriendsFiles :
        voiceCall(voiceConfig, from, friendsFile)
  \/ probeTaken

SpecVoice == Init /\ [][VoiceNext]_vars

\* ------------------------------------------------------------------------
\* The model router (model-router.ts)
\* ------------------------------------------------------------------------

VALID_TIERS == <<"mini", "mid", "high", "max">>

\* classifierMinLength when the configuration leaves it out
DefaultClassifierMinLength == 80

\* an optional number is a sequence of at most one number
NoNumber == <<>>

RouterRule(pattern, regex, tier, flags) == [pattern |-> pattern, regex |-> regex, tier |-> tier, flags |-> flags]

\* RegExp.prototype.test for an unanchored pattern under the given flags
RegexTest(alts, flags, s) ==
  IF includes(flags, <<"i">>) THEN RegexTestI(alts, s)
  ELSE \E a \in alts : \E j \in 1..(Len(s) + 1) : MatchAt(a, s, 1, j)

\* what `new RegExp` makes of a pattern it rejects
InvalidRegex == {<<"INVALID">>}

\* compileRules: rules with an empty pattern, an unknown tier or a pattern
\* `new RegExp` rejects (InvalidRegex) are left out
compileRules(rules) ==
  SelectSeq(rules, LAMBDA rule :
    /\ rule.pattern # NULL /\ trim(rule.pattern) # <<>>
    /\ \E k \in 1..Len(VALID_TIERS) : VALID_TIERS[k] = rule.tier
    /\ rule.regex # InvalidRegex)

\* rule.flags?.trim() || "i"
ruleFlags(rule) == IF rule.flags = NULL \/ trim(rule.flags) = <<>> THEN <<"i">> ELSE trim(rule.flags)

NoMatch == [tier |-> "none"]

\* matchRule: the first compiled rule whose regex matches
RECURSIVE matchRule(_, _)
matchRule(message, rules) ==
  IF rules = <<>> THEN NoMatch
  ELSE IF RegexTest(rules[1].regex, ruleFlags(rules[1]), message)
       THEN [tier |-> rules[1].tier, pattern |-> rules[1].pattern]
  ELSE matchRule(message, Tail(rules))

\* a tier name as a string of characters
TierWord(tier) ==
  CASE tier = "mini" -> <<"m","i","n","i">>
    [] tier = "mid" -> <<"m","i","d">>
    [] tier = "high" -> <<"h","i","g","h">>
    [] tier = "max" -> <<"m","a","x">>

\* the first word of VALID_TIERS, from k on, the content contains
RECURSIVE firstTierIn(_, _)
firstTierIn(content, k) ==
  IF k > Len(VALID_TIERS) THEN "null"
  ELSE IF includes(content, TierWord(VALID_TIERS[k])) THEN VALID_TIERS[k]
  ELSE firstTierIn(content, k + 1)

\* classifyWithLlm: reply is the content of the first choice of the
\* completion, NULL when the key, the request or the response failed
classifyWithLlm(reply) ==
  IF reply = NULL THEN "null"
  ELSE LET content == toLowerCase(trim(reply))
       IN IF content = <<>> THEN "null"
          ELSE IF \E k \in 1..Len(VALID_TIERS) : content = TierWord(VALID_TIERS[k])
            THEN VALID_TIERS[CHOOSE k \in 1..Len(VALID_TIERS) : content = TierWord(VALID_TIERS[k])]
          ELSE firstTierIn(content, 1)

\* routerConfig.tiers: absent, or the entries of the object
Tiers(defined, entries) == [defined |-> defined, entries |-> entries]

NoTiers == Tiers(FALSE, <<>>)

\* tiers?.[tier]
TierModel(tiers, tier) ==
  IF tiers.defined /\ \E k \in 1..Len(tiers.entries) : tiers.entries[k][1] = tier
  THEN tiers.entries[CHOOSE k \in 1..Len(tiers.entries) : tiers.entries[k][1] = tier][2]
  ELSE NULL

NullRoute == [null |-> TRUE]

\* resolveTierModel: unknown is the set of model strings
\* resolveModelRefFromString does not resolve
resolveTierModel(tier, routerConfig, unknown) ==
  LET tierModelRaw == TierModel(routerConfig.tiers, tier)
  IN IF tierModelRaw = NULL \/ trim(tierModelRaw) = <<>> THEN NullRoute
     ELSE IF tierModelRaw \in unknown THEN NullRoute
     ELSE [ref |-> tierModelRaw]

RouteResult(ref, tier, source) == [ref |-> ref, tier |-> tier, source |-> source]

Routed(result, classifierCalls) == [result |-> result, classifierCalls |-> classifierCalls]

\* routeModelForMessage from its stage 2 on, with the length test left out
routeStage2(message, routerConfig, reply, unknown) ==
  LET classifiedTier == classifyWithLlm(reply)
      ref == resolveTierModel(classifiedTier, routerConfig, unknown)
  IN IF classifiedTier = "null" THEN Routed(NullRoute, 1)
     ELSE IF classifiedTier \in {"mini", "mid"} THEN Routed(NullRoute, 1)
     ELSE IF ref # NullRoute THEN Routed(RouteResult(ref.ref, classifiedTier, "classifier"), 1)
     ELSE Routed(NullRoute, 1)

\* routeModelForMessage with the classifier asked whatever the length
routeModelForMessage_noLengthGate(rawMessage, routerConfig, reply, unknown) ==
  LET message == IF rawMessage = NULL THEN <<>> ELSE trim(rawMessage)
      ruleMatch == matchRule(message, compileRules(routerConfig.rules))
      ref == resolveTierModel(ruleMatch.tier, routerConfig, unknown)
  IN IF ~routerConfig.enabled THEN Routed(NullRoute, 0)
     ELSE IF message = <<>> THEN Routed(NullRoute, 0)
     ELSE IF ~routerConfig.tiers.defined \/ routerConfig.tiers.entries = <<>> THEN Routed(NullRoute, 0)
     ELSE IF ruleMatch # NoMatch /\ ruleMatch.tier \in {"mini", "mid"} THEN Routed(NullRoute, 0)
     ELSE IF ruleMatch # NoMatch /\ ref # NullRoute THEN Routed(RouteResult(ref.ref, ruleMatch.tier, "rule"), 0)
     ELSE routeStage2(message, routerConfig, reply, unknown)

\* routerConfig.classifierMinLength ?? 80
classifierMinLength(routerConfig) ==
  IF routerConfig.classifierMinLength = NoNumber THEN DefaultClassifierMinLength
  ELSE routerConfig.classifierMinLength[1]

\* routeModelForMessage: reply is what the classifier model would answer,
\* unknown the model strings that do not resolve; the result comes with the
\* number of classifier calls made
routeModelForMessage(rawMessage, routerConfig, reply, unknown) ==
  LET message == IF rawMessage = NULL THEN <<>> ELSE trim(rawMessage)
      ruleMatch == matchRule(message, compileRules(routerConfig.rules))
      ref == resolveTierModel(ruleMatch.tier, routerConfig, unknown)
  IN IF ~routerConfig.enabled THEN Routed(NullRoute, 0)
     ELSE IF message = <<>> THEN Routed(NullRoute, 0)
     ELSE IF ~routerConfig.tiers.defined \/ routerConfig.tiers.entries = <<>> THEN Routed(NullRoute, 0)
     ELSE IF ruleMatch # NoMatch /\ ruleMatch.tier \in {"mini", "mid"} THEN Routed(NullRoute, 0)
     ELSE IF ruleMatch # NoMatch /\ ref # NullRoute THEN Routed(RouteResult(ref.ref, ruleMatch.tier, "rule"), 0)
     ELSE IF Len(message) < classifierMinLength(routerConfig) THEN Routed(NullRoute, 0)
     ELSE routeStage2(message, routerConfig, reply, unknown)

RuleHello == RouterRule(<<"h","e","l","l","o","|","t","h","a","n","k","s">>, {<<"h","e","l","l","o">>, <<"t","h","a","n","k","s">>}, "mini", NULL)
RuleSchedule == RouterRule(<<"s","c","h","e","d","u","l","e">>, {<<"s","c","h","e","d","u","l","e">>}, "mid", <<>>)
RuleDebug == RouterRule(<<"d","e","b","u","g","|","r","e","f","a","c","t","o","r">>, {<<"d","e","b","u","g">>, <<"r","e","f","a","c","t","o","r">>}, "high", <<"i">>)
RuleDesign == RouterRule(<<"a","r","c","h","i","t","e","c","t","|","d","e","s","i","g","n",".","*","s","y","s","t","e","m">>, {<<"a","r","c","h","i","t","e","c","t">>, <<"d","e","s","i","g","n","ANY*","s","y","s","t","e","m">>}, "max", NULL)
RuleUrgent == RouterRule(<<"U","R","G","E","N","T">>, {<<"U","R","G","E","N","T">>}, "high", <<"g">>)
RuleBlank == RouterRule(<<" "," ">>, {<<>>}, "max", NULL)
RuleBroken == RouterRule(<<"(","d","e","b","u","g">>, InvalidRegex, "max", NULL)
RuleUltra == RouterRule(<<"d","e","b","u","g">>, {<<"d","e","b","u","g">>}, "ultra", NULL)

ModelHigh == <<"o","p","e","n","a","i","/","g","p","t","-","5">>
ModelMax == <<"a","n","t","h","r","o","p","i","c","/","c","l","a","u","d","e","-","o","p","u","s">>
ModelTypo == <<"g","p","t"," ","t","y","p","o">>

TiersFull == Tiers(TRUE, <<<<"high", ModelHigh>>, <<"max", ModelMax>>>>)

\* rules is routerConfig.rules ?? []
RouterCfg(enabled, rules, tiers, minLength) ==
  [enabled |-> enabled, rules |-> rules, tiers |-> tiers, classifierMinLength |-> minLength]

\* cfg.agents.defaults.router of the modelled runs
RouterConfigs ==
  { RouterCfg(FALSE, <<RuleDebug>>, TiersFull, <<12>>),
    RouterCfg(TRUE, <<RuleDebug>>, NoTiers, <<12>>),
    RouterCfg(TRUE, <<RuleDebug>>, Tiers(TRUE, <<>>), <<12>>),
    RouterCfg(TRUE, <<>>, TiersFull, NoNumber),
    RouterCfg(TRUE, <<RuleHello, RuleSchedule, RuleDebug, RuleDesign>>, TiersFull, <<12>>),
    RouterCfg(TRUE, <<RuleDebug, RuleHello, RuleUrgent>>, Tiers(TRUE, <<<<"max", ModelMax>>, <<"mini", ModelHigh>>>>), <<12>>),
    RouterCfg(TRUE, <<RuleBlank, RuleBroken, RuleUltra, RuleSchedule>>, TiersFull, <<12>>),
    RouterCfg(TRUE, <<RuleUrgent, RuleDesign>>, Tiers(TRUE, <<<<"high", <<" ">>>>, <<"max", ModelTypo>>>>), <<0>>),
    RouterCfg(TRUE, <<RuleDebug, RuleDesign>>, TiersFull, NoNumber) }

MsgLong ==
  <<"C","o","u","l","d"," ","y","o","u"," ","l","o","o","k"," ","i","n","t","o"," ","w","h","y"," ","t","h","e"," ","n","i","g","h","t","l","y"," ","e","x","p","o","r","t"," ","j","o","b"," ","w","r","i","t","e","s"," ","a","n"," ","e","m","p","t","y"," ","f","i","l","e"," ","a","n","d"," ">>
    \o <<"t","h","e","n"," ","p","r","o","p","o","s","e"," ","h","o","w"," ","w","e"," ","s","h","o","u","l","d"," ","r","e","s","t","r","u","c","t","u","r","e"," ","i","t","?">>

\* params.message
Messages ==
  { NULL, <<" "," "," ">>, <<"h","i">>, <<" "," ","H","e","l","l","o"," ","t","h","e","r","e"," "," ">>, <<"d","e","b","u","g"," ","i","t">>, <<" "," ","o","k"," "," "," "," "," "," "," "," "," ">>,
    <<"p","l","e","a","s","e"," ","D","E","B","U","G"," ","t","h","e"," ","f","a","i","l","i","n","g"," ","l","o","g","i","n"," ","t","e","s","t">>, <<"s","c","h","e","d","u","l","e"," ","l","u","n","c","h"," ","a","n","d"," ","s","a","y"," ","t","h","a","n","k","s">>,
    <<"u","r","g","e","n","t",":"," ","d","e","s","i","g","n"," ","t","h","e"," ","b","i","l","l","i","n","g"," ","s","y","s","t","e","m">>, <<"U","R","G","E","N","T"," ","f","i","x">>,
    <<"t","e","l","l"," ","m","e"," ","a","b","o","u","t"," ","t","h","e"," ","w","e","a","t","h","e","r"," ","i","n"," ","L","i","s","b","o","n">>, MsgLong }

\* what the classifier model answers (NULL: no key, an HTTP error, a timeout)
ClassifierReplies ==
  { NULL, <<"h","i","g","h">>, <<" ","M","a","x"," ">>, <<"m","i","d">>, <<"m","i","n","i">>, <<"M","i","n","i","m","u","m"," ","e","f","f","o","r","t",","," ","n","o","t"," ","h","i","g","h">>, <<"b","a","n","a","n","a">> }

\* the model strings resolveModelRefFromString rejects
UnknownModels == { {}, {ModelTypo, ModelMax} }

\* a message comes in and the router is asked for a model
route(message, routerConfig, reply, unknown) ==
  /\ probe = NoProbe
  /\ probe' = [fn |-> "routeModelForMessage", message |-> message, routerConfig |-> routerConfig,
               reply |-> reply, unknown |-> unknown,
               out |-> routeModelForMessage(message, routerConfig, reply, unknown)]
  /\ UNCHANGED <<gateVars, ledgerVars, lastOp, vaultVars>>

RouterNext ==
  \/ \E message \in Messages, routerConfig \in RouterConfigs, reply \in ClassifierReplies, unknown \in UnknownModels :
        route(message, routerConfig, reply, unknown)
  \/ probeTaken

SpecRouter == Init /\ [][RouterNext]_vars

\* ------------------------------------------------------------------------
\* Properties
\* ------------------------------------------------------------------------

IsBrowserAct(event) == event.toolName = "browser" /\ event.action = "act"

\* the purchase-intent test of the guard on a call's text
HasIntent(event) == RegexTestI(PURCHASE_KEYWORDS, extractActText(event))

\* a tracked URL that is present and on a sensitive domain
OnSensitive(url) == url # NULL /\ url # <<>> /\ isSensitiveDomain(url, sensitiveDomains)

ConfirmAction == <<"c","o","n","f","i","r","m","_","a","c","t","i","o","n">>

\* some approval request has been resolved with approved = true
SomeApproval == \E r \in 1..Len(reqs) : reqs[r].settled /\ reqs[r].value

\* C1 (as claimed): a purchase-like act issued while the page is on a
\* sensitive domain passes the guard only if some approval request was
\* resolved with approved = true before.
C1_Original ==
  (IsBrowserAct(verdict.event) /\ HasIntent(verdict.event) /\ verdict.pageSensitive /\ ~verdict.block)
    => SomeApproval

\* C2: the guard blocks a browser act if and only if the tracked URL is on a
\* sensitive domain and the text of the act matches a purchase keyword; a
\* block carries a refusal text that names confirm_action.
C2_BlockIffBoth ==
  IsBrowserAct(verdict.event) =>
    /\ (verdict.block <=> (OnSensitive(verdict.url) /\ HasIntent(verdict.event)))
    /\ verdict.block => includes(verdict.blockReason, ConfirmAction)

C2_Witness ==
  /\ IsBrowserAct(verdict.event) /\ verdict.block
  /\ verdict.url = UrlCheckout /\ verdict.event = ActPlaceOrder

\* C3: a confirm_action call returns approved = true only if an external
\* resolve(id, true) was accepted for the entry of that very call; every
\* other return has approved = false.
C3_ApprovedOnlyByAcceptedResolve ==
  \A r \in 1..Len(reqs) :
    reqs[r].result.returned =>
      /\ (reqs[r].result.approved <=> (reqs[r].accepted = "true"))
      /\ reqs[r].result.approved => reqs[r].result.approvalId = reqs[r].id

C3_Witness ==
  \E r \in 1..Len(reqs) : reqs[r].result.returned /\ reqs[r].result.approved

\* C4 (as claimed): the resolver of every request fires exactly once, with
\* the value of whichever came first for its id while it waited, an external
\* resolve or its own timer; the later event changes nothing.
C4_Original ==
  \A r \in 1..Len(reqs) :
    /\ reqs[r].fires <= 1
    /\ (reqs[r].first # "none") => reqs[r].settled
    /\ reqs[r].settled => (reqs[r].fires = 1 /\ reqs[r].first # "none")
    /\ reqs[r].settled => (reqs[r].value <=> (reqs[r].first = "ext_true"))

\* C5 (as claimed): once the timer of a request has expired, every later
\* resolve on its id returns false.
C5_Original ==
  [][\A r \in 1..Len(reqs) :
       (reqs[r].timer = "fired" /\ lastOp'.kind = "resolve" /\ lastOp'.id = reqs[r].id)
         => ~lastOp'.ret]_vars

\* C5 (amended): a request whose timer expires before any external resolve
\* is resolved with approved = false and the expiry leaves no entry under its
\* id; from then on the ledger gets an entry under that id only when a later
\* confirm_action call registers it, and while there is none every resolve on
\* the id returns false.
C5_TimeoutDenies ==
  [][\A r \in 1..Len(reqs) :
       /\ (reqs[r].timer = "armed" /\ reqs'[r].timer = "fired") =>
            /\ ~reqs[r].settled => (reqs'[r].settled /\ ~reqs'[r].value /\ reqs'[r].pc = "notify")
            /\ reqs[r].id \notin DOMAIN pendingApprovals'
       /\ reqs[r].timer = "fired" =>
            /\ reqs'[r].value = reqs[r].value /\ reqs'[r].timer = "fired"
            /\ (reqs[r].id \notin DOMAIN pendingApprovals /\ reqs[r].id \in DOMAIN pendingApprovals')
                 => (lastOp'.kind = "deliver" /\ pendingApprovals'[reqs[r].id].req # r)
            /\ (reqs[r].id \notin DOMAIN pendingApprovals /\ lastOp'.kind = "resolve" /\ lastOp'.id = reqs[r].id)
                 => ~lastOp'.ret]_vars

C5_Witness ==
  \E r \in 1..Len(reqs) :
    /\ reqs[r].timer = "fired" /\ reqs[r].first = "timer" /\ ~reqs[r].value
    /\ lastOp.kind = "resolve" /\ lastOp.id = reqs[r].id /\ ~lastOp.ret

\* what a resolve may change of a call: everything but the run's memory
Visible(rq) ==
  [r \in 1..Len(rq) |-> [pc |-> rq[r].pc, timer |-> rq[r].timer, fires |-> rq[r].fires,
                         settled |-> rq[r].settled, value |-> rq[r].value, result |-> rq[r].result]]

\* C6: resolve(id, a) on a live id returns true and fires the callback of
\* the entry once, with a; a resolve(id, b) that follows it returns false and
\* fires no callback.
C6_ResolveTwice ==
  [][/\ \A id \in DOMAIN pendingApprovals :
          (lastOp'.kind = "resolve" /\ lastOp'.id = id) =>
            LET r == pendingApprovals[id].req
            IN /\ lastOp'.ret
               /\ reqs[r].fires = 0 /\ reqs'[r].fires = 1
               /\ reqs'[r].settled /\ reqs'[r].value = lastOp'.approved
               /\ \A q \in 1..Len(reqs) : q # r => reqs'[q].fires = reqs[q].fires
     /\ (lastOp.kind = "resolve" /\ lastOp.ret /\ lastOp'.kind = "resolve" /\ lastOp'.id = lastOp.id) =>
          /\ ~lastOp'.ret
          /\ Visible(reqs') = Visible(reqs)]_vars

C6_Witness ==
  /\ lastOp.kind = "resolve" /\ ~lastOp.ret
  /\ \E r \in 1..Len(reqs) : reqs[r].id = lastOp.id /\ reqs[r].accepted # "none" /\ reqs[r].fires = 1
                             /\ reqs[r].pc = "notify"

\* C7: resolve on an id with no live entry returns false and leaves the
\* ledger, the timers and the waiters as they are.
C7_AbsentIsNoOp ==
  [][(lastOp'.kind = "resolve" /\ lastOp'.id \notin DOMAIN pendingApprovals) =>
       /\ ~lastOp'.ret
       /\ pendingApprovals' = pendingApprovals
       /\ Visible(reqs') = Visible(reqs)]_vars

C7_Witness ==
  /\ lastOp.kind = "resolve" /\ ~lastOp.ret /\ lastOp.id = IdUnknown
  /\ \E r \in 1..Len(reqs) : reqs[r].pc = "waiting" /\ reqs[r].timer = "armed"

\* C8 (as claimed): creating an entry under an id that has a live entry
\* fails: the ledger is left as it is and no second waiter is suspended.
C8_Original ==
  [][\A r \in 1..Len(reqs) :
       (reqs[r].pc = "deliver" /\ reqs[r].id \in DOMAIN pendingApprovals /\ reqs'[r].pc # "deliver") =>
         /\ pendingApprovals' = pendingApprovals
         /\ reqs'[r].pc # "waiting" /\ reqs'[r].timer # "armed"]_vars

\* C9 (as claimed): once confirm_action, asked for after a block, has
\* returned approved = true, the retry of the blocked act under the same
\* tracked URL is not blocked again.
C9_Original ==
  [][(/\ verdict.block
      /\ \E r \in 1..Len(reqs) : reqs[r].blockedBefore /\ reqs[r].result.returned /\ reqs[r].result.approved
      /\ currentUrl = verdict.url
      /\ lastOp'.kind = "before_tool_call"
      /\ verdict'.event = verdict.event)
       => ~verdict'.block]_vars

\* C10: no value resolved from the vault flows into a result of vault_login,
\* vault_fill, vaultInject or vaultInjectTotp: the same call, against the same
\* collaborators, on two vault items that differ only in the values of their
\* fields, returns the same result in both runs.
C10_Original ==
  toolResult["a"] = toolResult["b"]

\* a vault call has typed different values in the two runs and returned
C10_Witness ==
  /\ vaultCall.tool # "none"
  /\ \E i \in 1..Len(trace["a"]) :
        /\ i <= Len(trace["b"])
        /\ trace["a"][i].op = "type"
        /\ trace["a"][i].text # trace["b"][i].text

\* C11: a confirm_action call that finds no delivery target for the approval
\* channel returns approved = false with an error and goes no further: its
\* approval message is never handed to the channel, no notice is sent, it is
\* never in the ledger, it never waits, and no timer is armed for it.
C11_NoTargetStops ==
  \A r \in 1..Len(reqs) :
    reqs[r].cfg = "notarget" =>
      /\ reqs[r].pc = "done"
      /\ reqs[r].result.returned
      /\ ~reqs[r].result.approved
      /\ reqs[r].result.error # ""
      /\ reqs[r].requestMsg = "none"
      /\ reqs[r].notice = "none"
      /\ reqs[r].timer = "none"
      /\ ~reqs[r].settled
      /\ \A id \in DOMAIN pendingApprovals : pendingApprovals[id].req # r

\* a call has returned for want of a target while another call is waiting
C11_Witness ==
  \E r, q \in 1..Len(reqs) :
    /\ reqs[r].cfg = "notarget"
    /\ reqs[r].result.returned
    /\ reqs[q].pc = "waiting"

\* C12: when the delivery of the outcome notice fails, the call still
\* returns {approved, approvalId} with the decision that released its waiter:
\* no error, and approved unchanged.
C12_NoticeFailureIgnored ==
  [][(lastOp'.kind = "notify" /\ ~lastOp'.ret) =>
       \E r \in {lastOp'.req} :
         /\ reqs[r].pc = "notify"
         /\ reqs[r].settled
         /\ reqs'[r].notice = "failed"
         /\ reqs'[r].result = [returned |-> TRUE, approved |-> reqs[r].value,
                               approvalId |-> reqs[r].id, error |-> ""]]_vars

\* an approved call has returned approved = true although its notice failed
C12_Witness ==
  \E r \in 1..Len(reqs) :
    /\ reqs[r].notice = "failed"
    /\ reqs[r].accepted = "true"
    /\ reqs[r].result.returned
    /\ reqs[r].result.approved

\* C13 (as claimed): an external resolve(id, d) that arrives while a call is
\* suspended under id with its timer still running releases that call with
\* d and cancels its timer; the call then returns {approved: d, approvalId:
\* id} and its timer never fires.
C13_Original ==
  /\ [][lastOp'.kind = "resolve" =>
          \A r \in 1..Len(reqs) :
            (reqs[r].id = lastOp'.id /\ reqs[r].pc = "waiting" /\ reqs[r].timer = "armed")
              => /\ reqs'[r].pc = "notify"
                 /\ reqs'[r].settled
                 /\ reqs'[r].value = lastOp'.approved
                 /\ reqs'[r].timer = "cleared"]_vars
  /\ [](\A r \in 1..Len(reqs) :
          (reqs[r].result.returned /\ reqs[r].first \in {"ext_true", "ext_false"})
            => /\ reqs[r].result.approved = (reqs[r].first = "ext_true")
               /\ reqs[r].result.approvalId = reqs[r].id
               /\ reqs[r].timer = "cleared")

\* the calls that have registered an entry and are not yet approved, denied
\* or timed out
Unresolved == {r \in 1..Len(reqs) : reqs[r].pc = "waiting" /\ ~reqs[r].settled}

\* C15 (as claimed): in every reachable state the outstanding approval ids are
\* exactly the ids of the unresolved requests: an id leaves the ledger in the
\* very step in which its request is approved, denied or timed out, not
\* before and not after.
C15_Original ==
  listPendingApprovals = {reqs[r].id : r \in Unresolved}

\* the ledger holds an entry registered by call r
HasEntry(r) == \E id \in DOMAIN pendingApprovals : pendingApprovals[id].req = r

\* C14: every confirm_action call that has registered a ledger entry
\* eventually returns, given that its timer is allowed to fire and the
\* delivery of the notice settles: its waiter is released, its entry is
\* removed, and the call is done, whether or not a command ever arrives.
C14_EventuallyReturns ==
  \A r \in 1..MaxLiveReqs :
    (r <= Len(reqs) /\ reqs[r].pc = "waiting")
      ~> (r <= Len(reqs) /\ reqs[r].settled /\ reqs[r].result.returned /\ ~HasEntry(r))

\* a call has waited, was released by its timer with no command accepted,
\* and has returned
C14_Witness ==
  \E r \in 1..Len(reqs) :
    /\ reqs[r].first = "timer"
    /\ reqs[r].accepted = "none"
    /\ reqs[r].result.returned
    /\ ~HasEntry(r)

\* the registered name of the URL is one of the configured domains, up to case
BaseConfigured(p) ==
  \E k \in 1..Len(p.domains) : toLowerCase(p.parts.base) = toLowerCase(p.domains[k])

\* C16: for every configured sensitive domain d, a URL whose host is d, www.d
\* or a subdomain of d (ending in "." d) is classified sensitive, and a URL
\* whose host has d as a suffix with no dot in front of it ("not" d, "my-" d)
\* is classified not sensitive, whatever the case of the letters in the URL
\* and in the configuration.
C16_DotBoundary ==
  probe.fn = "isSensitiveDomain" =>
    /\ (BaseConfigured(probe) /\ probe.parts.label \in SubdomainLabels) => probe.out
    /\ (BaseConfigured(probe) /\ probe.parts.label \in GluedLabels) => ~probe.out

\* https://shop.test@notSHOP.Test:8443/cart has been classified not sensitive
C16_Witness ==
  /\ probe.fn = "isSensitiveDomain"
  /\ probe.parts.label = <<"n","o","t">>
  /\ probe.parts.base = <<"S","H","O","P",".","T","e","s","t">>
  /\ probe.parts.userinfo # <<>>
  /\ probe.parts.tail = <<":","8","4","4","3","/","c","a","r","t">>
  /\ ~probe.out

\* C17: the guard blocks nothing but a browser act: navigate, snapshot,
\* screenshot, status and every call of another tool pass, whatever URL is
\* tracked and whatever text their parameters carry.
C17_OnlyActBlocked ==
  /\ ~IsBrowserAct(verdict.event) => ~verdict.block
  /\ (call # NoCall /\ ~IsBrowserAct(call)) => call = verdict.event

\* a screenshot call with purchase text has passed under a tracked URL on a
\* sensitive domain
C17_Witness ==
  /\ verdict.event.toolName = "browser"
  /\ verdict.event.action = "screenshot"
  /\ HasIntent(verdict.event)
  /\ OnSensitive(verdict.url)
  /\ ~verdict.block
  /\ call = verdict.event

\* C18 (as claimed): the verdict of the guard is a function of the action
\* kind, the action parameters, the URL the tracker reports and the sensitive
\* domains: two invocations with the same values of these return the same
\* verdict, whatever calls were handled in between, also when the tracker
\* reports no URL.
C18_Original ==
  (probe.fn = "guard" /\ probe.event = verdict.event /\ probe.url = verdict.url)
    => (probe.block = verdict.block /\ probe.blockReason = verdict.blockReason)

\* the observed call is a navigate with a string target
IsNavigate(event) == event.action = "navigate" /\ event.targetUrl # NULL

\* C19 (as claimed): the tracker's URL is updated whenever a navigate is
\* observed (to its target) and whenever any observed tool result carries a
\* url (to that url): after the observation getCurrentUrl returns the
\* observed URL (the url of the result when the event has both).
C19_Original ==
  [][lastOp'.kind = "after_tool_call" =>
       /\ lastOp'.id # NULL => getCurrentUrl' = lastOp'.id
       /\ (lastOp'.id = NULL /\ IsNavigate(call)) => getCurrentUrl' = call.targetUrl]_vars

\* C19 (amended): the tracker's URL is updated on every observed event of
\* the `browser` tool whose result carries a url (to that url) or, when the
\* result carries none, that is a navigate (to its target); an event of
\* another tool leaves it as it is, also when its result carries a url.
C19_BrowserEventsOnly ==
  [][lastOp'.kind = "after_tool_call" =>
       IF call.toolName = "browser"
       THEN /\ lastOp'.id # NULL => getCurrentUrl' = lastOp'.id
            /\ (lastOp'.id = NULL /\ IsNavigate(call)) => getCurrentUrl' = call.targetUrl
            /\ (lastOp'.id = NULL /\ ~IsNavigate(call)) => getCurrentUrl' = getCurrentUrl
       ELSE getCurrentUrl' = getCurrentUrl]_vars

\* the result of a tool other than `browser` carried a url and the tracker
\* did not take it
C19_Witness ==
  /\ lastOp.kind = "after_tool_call"
  /\ lastOp.id = UrlCheckout
  /\ verdict.event.toolName = "exec"
  /\ getCurrentUrl # UrlCheckout

IntentJudged(v) == IsBrowserAct(v.event) /\ OnSensitive(v.url)

Traced(op) == \E r \in Runs : \E i \in 1..Len(trace[r]) : trace[r][i].op = op

\* C22 (as claimed): vaultInject called with an explicit field map never
\* consults the page: no snapshot is taken, and whatever is typed is typed
\* into the element refs the caller supplied.
C22_Original ==
  (vaultCall.tool = "vaultInject" /\ vaultCall.args # NoFieldMap)
    => /\ ~Traced("snapshot")
       /\ \A r \in Runs : \A i \in 1..Len(trace[r]) :
            trace[r][i].op = "type" => trace[r][i].ref \in {vaultCall.args.username, vaultCall.args.password}

\* the snapshot shows a text input whose name matches the pattern
HasInput(snap, pattern) ==
  \E i \in 1..Len(snap.nodes) : snap.nodes[i].role = "textbox" /\ RegexTestI(pattern, snap.nodes[i].name)

\* what a run has typed into the page, in order
Typed(r) == SelectSeq(trace[r], LAMBDA e : e.op = "type")

\* the call of run r came past vaultResolve: a client was there and the
\* item has the two required fields
Resolved(r) ==
  /\ clientPromise[r] # NoClient
  /\ secrets[r][FieldUsername].present
  /\ secrets[r][FieldPassword].present

\* C23: vaultInject without a field map, once the credentials are resolved
\* and the snapshot is taken and no browser action fails, returns
\* { filled: true } after typing the username and then the password when the
\* snapshot has a text input for each, and fails with the not-found error of
\* the username field, typing nothing, when it has neither.
C23_AutoDetect ==
  \A r \in Runs :
    (/\ vaultCall.tool = "vaultInject"
     /\ vaultCall.args = NoFieldMap
     /\ Resolved(r)
     /\ vaultCall.env.snaps.inject.ok
     /\ vaultCall.env.failAct = 0)
      => /\ (HasInput(vaultCall.env.snaps.inject, UsernamePattern) /\ HasInput(vaultCall.env.snaps.inject, PasswordPattern))
              => /\ toolResult[r] = [filled |-> TRUE]
                 /\ Len(Typed(r)) = 2
                 /\ Typed(r)[1].text = secrets[r][FieldUsername].value
                 /\ Typed(r)[2].text = secrets[r][FieldPassword].value
         /\ (~HasInput(vaultCall.env.snaps.inject, UsernamePattern) /\ ~HasInput(vaultCall.env.snaps.inject, PasswordPattern))
              => /\ toolResult[r] = [thrown |-> TRUE, error |-> <<"Could not auto-detect username/email input field on page">>]
                 /\ Typed(r) = <<>>

\* the login page was filled without a field map: the username went into
\* e1 and then the password into e2
C23_Witness ==
  /\ vaultCall.tool = "vaultInject"
  /\ vaultCall.args = NoFieldMap
  /\ vaultCall.env.snaps.inject = LoginSnap
  /\ toolResult["a"] = [filled |-> TRUE]
  /\ Len(Typed("a")) = 2
  /\ Typed("a")[1].ref = <<"e","1">>
  /\ Typed("a")[2].ref = <<"e","2">>

\* C24: vaultInjectTotp on an item that has a username and a password but no
\* one-time password, once a client is there, returns { filled: false }: it
\* does not throw, takes no snapshot and types or clicks nothing.
C24_NoTotpIsSoft ==
  \A r \in Runs :
    (/\ vaultCall.tool = "vaultInjectTotp"
     /\ Resolved(r)
     /\ ~secrets[r][FieldTotp].present)
      => /\ toolResult[r] = [filled |-> FALSE]
         /\ \A i \in 1..Len(trace[r]) : trace[r][i].op \notin {"snapshot", "type", "click"}

\* vaultInjectTotp was called with the ref of a code input on the 2FA page
\* for an item without a one-time password, and returned { filled: false }
C24_Witness ==
  /\ vaultCall.tool = "vaultInjectTotp"
  /\ vaultCall.args = <<"e","4">>
  /\ vaultCall.env.snaps.totp = TotpSnap
  /\ Resolved("a")
  /\ ~secrets["a"][FieldTotp].present
  /\ toolResult["a"] = [filled |-> FALSE]
  /\ Typed("a") = <<>>

\* node i of the snapshot is the first text input whose name matches
FirstInput(snap, pattern, i) ==
  /\ snap.nodes[i].role = "textbox" /\ RegexTestI(pattern, snap.nodes[i].name)
  /\ \A k \in 1..(i - 1) : ~(snap.nodes[k].role = "textbox" /\ RegexTestI(pattern, snap.nodes[k].name))

\* C25 (as claimed): in auto-detection the first matching node wins; a
\* missing username or password input is a failure of vaultInject; a missing
\* code input is no failure of vaultInjectTotp, which returns
\* { filled: false }.
C25_Original ==
  \A r \in Runs :
    /\ (/\ vaultCall.tool = "vaultInject"
        /\ vaultCall.args = NoFieldMap
        /\ Resolved(r)
        /\ vaultCall.env.snaps.inject.ok)
         => /\ \A i \in 1..Len(Typed(r)) :
                 \E n \in 1..Len(vaultCall.env.snaps.inject.nodes) :
                   /\ Typed(r)[i].ref = vaultCall.env.snaps.inject.nodes[n].ref
                   /\ FirstInput(vaultCall.env.snaps.inject, IF i = 1 THEN UsernamePattern ELSE PasswordPattern, n)
            /\ (~HasInput(vaultCall.env.snaps.inject, UsernamePattern) \/ ~HasInput(vaultCall.env.snaps.inject, PasswordPattern))
                 => ("thrown" \in DOMAIN toolResult[r] /\ Typed(r) = <<>>)
    /\ (/\ vaultCall.tool = "vaultInjectTotp"
        /\ vaultCall.args = NULL
        /\ Resolved(r)
        /\ vaultCall.env.snaps.totp.ok
        /\ ~HasInput(vaultCall.env.snaps.totp, TotpPattern))
         => toolResult[r] = [filled |-> FALSE]

\* the item of run r has a one-time password that is not empty
HasTotp(r) == secrets[r][FieldTotp].present /\ secrets[r][FieldTotp].value # ""

\* C25 (amended): in auto-detection the first matching node wins, and a
\* missing match is a failure for the username, the password and the code
\* input alike: without a code-like input on the page vaultInjectTotp throws,
\* typing nothing; it returns { filled: false } only for an item without a
\* one-time password.
C25_MissingInputThrows ==
  \A r \in Runs :
    /\ (/\ vaultCall.tool = "vaultInject"
        /\ vaultCall.args = NoFieldMap
        /\ Resolved(r)
        /\ vaultCall.env.snaps.inject.ok)
         => /\ \A i \in 1..Len(Typed(r)) :
                 \E n \in 1..Len(vaultCall.env.snaps.inject.nodes) :
                   /\ Typed(r)[i].ref = vaultCall.env.snaps.inject.nodes[n].ref
                   /\ FirstInput(vaultCall.env.snaps.inject, IF i = 1 THEN UsernamePattern ELSE PasswordPattern, n)
            /\ (~HasInput(vaultCall.env.snaps.inject, UsernamePattern) \/ ~HasInput(vaultCall.env.snaps.inject, PasswordPattern))
                 => ("thrown" \in DOMAIN toolResult[r] /\ Typed(r) = <<>>)
    /\ (/\ vaultCall.tool = "vaultInjectTotp"
        /\ vaultCall.args = NULL
        /\ Resolved(r)
        /\ vaultCall.env.snaps.totp.ok)
         => /\ \A i \in 1..Len(Typed(r)) :
                 \E n \in 1..Len(vaultCall.env.snaps.totp.nodes) :
                   /\ Typed(r)[i].ref = vaultCall.env.snaps.totp.nodes[n].ref
                   /\ FirstInput(vaultCall.env.snaps.totp, TotpPattern, n)
            /\ (HasTotp(r) /\ ~HasInput(vaultCall.env.snaps.totp, TotpPattern))
                 => /\ toolResult[r] = [thrown |-> TRUE,
                                        error |-> <<"Could not auto-detect TOTP/verification code input field on page">>]
                    /\ Typed(r) = <<>>
            /\ (toolResult[r] = [filled |-> FALSE]) => ~HasTotp(r)

\* vaultInjectTotp has thrown on the home page, which has no code input, for
\* an item with a one-time password
C25_Witness ==
  /\ vaultCall.tool = "vaultInjectTotp"
  /\ vaultCall.args = NULL
  /\ vaultCall.env.snaps.totp = HomeSnap
  /\ Resolved("a") /\ HasTotp("a")
  /\ "thrown" \in DOMAIN toolResult["a"]
  /\ Typed("a") = <<>>

\* entry i of the trace of run r is a field injection that failed: a value
\* that could not be typed, or a field that could not be resolved (the
\* one-time password of vault_login is optional, its resolve may fail)
InjectionFailed(r, i) ==
  /\ ~trace[r][i].ok
  /\ \/ trace[r][i].op = "type"
     \/ trace[r][i].op = "resolve" /\ ~(vaultCall.tool = "vault_login" /\ trace[r][i].ref = FieldTotp)

\* the result of run r reports a failure and says why
ErrorSurfaced(r) ==
  /\ toolResult[r].success = FALSE
  /\ ("error" \in DOMAIN toolResult[r]) \/ ("errors" \in DOMAIN toolResult[r])

Resolves(r) == SelectSeq(trace[r], LAMBDA e : e.op = "resolve")

TokenError ==
  <<"OP_SERVICE_ACCOUNT_TOKEN is not set. A 1Password service account token is required for vault operations.">>

\* C27: vaultResolve, when no client was made before and the service token is
\* not set, fails with the token error before any secret is asked for; with a
\* client it fails when the username or the password cannot be resolved, and
\* returns the credentials with totp absent when only the one-time password
\* is missing.
C27_ResolveOutcomes ==
  [][vaultCall'.tool = "vaultResolve"
       => \A r \in Runs :
            /\ (clientPromise[r] = NoClient /\ ~vaultCall'.env.token)
                 => /\ toolResult'[r] = [thrown |-> TRUE, error |-> TokenError]
                    /\ trace'[r] = <<>>
            /\ (/\ clientPromise[r] # NoClient \/ vaultCall'.env.token
                /\ ~secrets[r][FieldUsername].present \/ ~secrets[r][FieldPassword].present)
                 => /\ "thrown" \in DOMAIN toolResult'[r]
                    /\ toolResult'[r].error # TokenError
            /\ (/\ clientPromise[r] # NoClient \/ vaultCall'.env.token
                /\ secrets[r][FieldUsername].present /\ secrets[r][FieldPassword].present)
                 => toolResult'[r] =
                      [creds |-> [username |-> secrets[r][FieldUsername].value,
                                  password |-> secrets[r][FieldPassword].value,
                                  totp |-> IF secrets[r][FieldTotp].present
                                           THEN Secret(secrets[r][FieldTotp].value) ELSE Absent]]]_vars

\* vaultResolve has returned the username and the password of an item that
\* has no one-time password, with totp absent
C27_Witness ==
  /\ vaultCall.tool = "vaultResolve"
  /\ ~secrets["a"][FieldTotp].present
  /\ "creds" \in DOMAIN toolResult["a"]
  /\ toolResult["a"].creds.username = "alice"
  /\ toolResult["a"].creds.totp = Absent

\* a vault or credential error has occurred in the call of run r: no client
\* could be made, a required secret was not resolved, a browser request was
\* rejected, or vaultInject got no snapshot or found no input
ErrorOccurred(r) ==
  \/ /\ clientPromise[r] = NoClient
     /\ \/ vaultCall.tool = "vault_fill" /\ Len(vaultCall.args) > 0
        \/ vaultCall.tool = "vault_login" /\ ~vaultCall.env.navFails
  \/ \E i \in 1..Len(trace[r]) : InjectionFailed(r, i)
  \/ \E i \in 1..Len(trace[r]) : trace[r][i].op \in {"click", "navigate", "start", "status"} /\ ~trace[r][i].ok
  \/ /\ vaultCall.tool = "vault_login"
     /\ Resolved(r)
     /\ ~vaultCall.env.navFails
     /\ \/ ~vaultCall.env.snaps.inject.ok
        \/ ~HasInput(vaultCall.env.snaps.inject, UsernamePattern)
        \/ ~HasInput(vaultCall.env.snaps.inject, PasswordPattern)

C29_ApproveCommand ==
  [][(probe'.fn = "approve" /\ lastOp'.kind \in {"resolve", "usage"})
       => LET approves == probe'.token # NULL /\ toLowerCase(probe'.token) \in {Yes, Y, Approve}
          IN /\ (probe'.id = <<>>)
                  => /\ probe'.reply = Reply("usage", <<>>)
                     /\ lastOp'.kind = "usage"
                     /\ pendingApprovals' = pendingApprovals
                     /\ Visible(reqs') = Visible(reqs)
             /\ (probe'.id # <<>>)
                  => /\ lastOp'.kind = "resolve" /\ lastOp'.id = probe'.id
                     /\ (lastOp'.approved) <=> approves
             /\ (probe'.id # <<>> /\ probe'.id \in DOMAIN pendingApprovals)
                  => /\ probe'.reply = Reply(IF approves THEN "approved" ELSE "denied", probe'.id)
                     /\ probe'.id \notin DOMAIN pendingApprovals'
                     /\ LET r == pendingApprovals[probe'.id].req
                        IN /\ reqs'[r].fires = reqs[r].fires + 1
                           /\ reqs'[r].timer # "armed"
                           /\ (~reqs[r].settled) => (reqs'[r].settled /\ (reqs'[r].value <=> approves))
             /\ (probe'.id # <<>> /\ probe'.id \notin DOMAIN pendingApprovals)
                  => /\ probe'.reply = Reply("notfound", probe'.id)
                     /\ pendingApprovals' = pendingApprovals
                     /\ Visible(reqs') = Visible(reqs)]_vars

\* a command has denied a waiting request: its entry is gone and the call
\* has been released with approved = false
C29_Witness ==
  /\ lastOp.kind = "resolve" /\ lastOp.ret /\ ~lastOp.approved
  /\ lastOp.id \notin DOMAIN pendingApprovals
  /\ reqs[lastOp.req].id = lastOp.id
  /\ reqs[lastOp.req].settled /\ ~reqs[lastOp.req].value
  /\ reqs[lastOp.req].pc = "notify"

\* how many calls of the kind `op` run r has made
Count(r, op) == Cardinality({i \in 1..Len(trace[r]) : trace[r][i].op = op})

\* C30 (as claimed): vault_login works in a fixed order without retries:
\* status (start only when the browser does not run), navigate, the two
\* credentials, submit, the snapshot after the login, and the one-time
\* password only when that snapshot shows a 2FA prompt; nothing is typed
\* before the navigation has succeeded, and a step that fails is the last
\* step of the call.
C30_Original ==
  \A r \in Runs :
    vaultCall.tool = "vault_login"
      => /\ trace[r][1].op = "status"
         /\ (Count(r, "start") = 1) <=> ~vaultCall.env.running
         /\ Count(r, "start") <= 1 /\ Count(r, "navigate") = 1
         /\ Count(r, "type") <= 3 /\ Count(r, "click") <= 2 /\ Count(r, "snapshot") <= 5
         /\ \A i \in 1..Len(trace[r]) :
              /\ trace[r][i].op = "start" => i = 2
              /\ trace[r][i].op = "navigate" => i = Count(r, "start") + 2
              /\ trace[r][i].op \in {"resolve", "snapshot", "type", "click"}
                   => \E k \in 1..(i - 1) : trace[r][k].op = "navigate" /\ trace[r][k].ok
              /\ trace[r][i].op = "click" => Count(r, "type") >= 2
              /\ (~trace[r][i].ok /\ ~(trace[r][i].op = "resolve" /\ trace[r][i].ref = FieldTotp))
                   => i = Len(trace[r])
         /\ Count(r, "type") = 3 => HasInput(vaultCall.env.snaps.post, TotpPattern)
\* the caller's number equals the configured owner's number, digits compared
IsOwnerNumber(p) ==
  LET o == configuredOwner(p.voiceConfig)
  IN Truthy(o) /\ stripNonDigits(p.from) = stripNonDigits(o)

\* entry k of friends.json carries the caller's number
EntryMatches(p, k) ==
  /\ Truthy(p.friendsFile[k].phone)
  /\ stripNonDigits(p.friendsFile[k].phone) = stripNonDigits(p.from)

FriendEntries(p) ==
  IF p.friendsFile = NULL THEN {} ELSE {k \in 1..Len(p.friendsFile) : EntryMatches(p, k)}

\* C31 (as claimed): the tier of a caller is owner when the number equals the
\* owner's; otherwise trusted when the number matches a friends entry whose
\* relationship marks a spouse; otherwise friend when it matches any friends
\* entry; otherwise stranger. The agent run has its tools disabled exactly
\* for a stranger and senderIsOwner set exactly for the owner.
C31_Original ==
  probe.fn = "generateVoiceResponse" =>
    /\ probe.run.tier =
         IF IsOwnerNumber(probe) THEN "owner"
         ELSE IF \E k \in FriendEntries(probe) : isTrustedRelationship(probe.friendsFile[k].relationship)
           THEN "trusted"
         ELSE IF FriendEntries(probe) # {} THEN "friend"
         ELSE "stranger"
    /\ probe.run.disableTools <=> (probe.run.tier = "stranger")
    /\ probe.run.senderIsOwner <=> (probe.run.tier = "owner")
\* the rule matchRule finds for the trimmed message of a router call
RuleMatched(p) ==
  matchRule(IF p.message = NULL THEN <<>> ELSE trim(p.message), compileRules(p.routerConfig.rules))

\* routerConfig.tiers names a non-blank model for the tier
TierConfigured(p, tier) ==
  LET raw == TierModel(p.routerConfig.tiers, tier) IN raw # NULL /\ trim(raw) # <<>>

\* C32: routeModelForMessage returns a route only with tier high or max and
\* only when a model is configured for that tier; when a mini or mid rule
\* matches it returns null and the classifier is not called; for a message
\* shorter than classifierMinLength the classifier is not called, and a
\* route is returned for it only from a high or max rule match.
C32_OnlyEscalates ==
  probe.fn = "routeModelForMessage" =>
    /\ probe.out.result # NullRoute =>
         /\ probe.out.result.tier \in {"high", "max"}
         /\ TierConfigured(probe, probe.out.result.tier)
    /\ RuleMatched(probe).tier \in {"mini", "mid"} =>
         /\ probe.out.result = NullRoute
         /\ probe.out.classifierCalls = 0
    /\ (probe.message # NULL /\ Len(probe.message) < classifierMinLength(probe.routerConfig)) =>
         /\ probe.out.classifierCalls = 0
         /\ probe.out.result # NullRoute =>
              /\ probe.out.result.source = "rule"
              /\ RuleMatched(probe).tier = probe.out.result.tier

\* "debug it" is shorter than classifierMinLength = 12 and is escalated to
\* high by a rule, while the classifier, which would have said max, is not
\* asked; and a short message without a rule match gets no route
C32_Witness ==
  /\ probe.fn = "routeModelForMessage"
  /\ probe.message = <<"d","e","b","u","g"," ","i","t">>
  /\ classifierMinLength(probe.routerConfig) = 12
  /\ probe.reply = <<" ","M","a","x"," ">>
  /\ probe.out.result # NullRoute
  /\ probe.out.result.tier = "high"
  /\ probe.out.result.source = "rule"
  /\ probe.out.classifierCalls = 0
\* C33 (as claimed): while a call waits under its id and its own timer has
\* not fired, resolve(id, d) returns true and releases that very call with
\* d, also when another call has registered the same id in the meantime; and
\* the timer of one call never removes the ledger entry of another call.
C33_Original ==
  /\ [][lastOp'.kind = "resolve" =>
          \A r \in 1..Len(reqs) :
            (reqs[r].id = lastOp'.id /\ reqs[r].pc = "waiting" /\ reqs[r].timer = "armed")
              => /\ lastOp'.ret
                 /\ reqs'[r].settled
                 /\ reqs'[r].value = lastOp'.approved]_vars
  /\ [][lastOp'.kind = "timeout" =>
          \A id \in DOMAIN pendingApprovals :
            pendingApprovals[id].req # lastOp'.req
              => (id \in DOMAIN pendingApprovals' /\ pendingApprovals'[id] = pendingApprovals[id])]_vars
\* C34 (as claimed): the ledger holds an entry of a call only after the
\* call's approval message has been delivered; a resolve(id, d) that arrives
\* when the message of a call with that id has been handed to the channel
\* and the call's entry does not exist yet returns false and leaves the
\* ledger and every call as they were, so nothing of it is remembered.
C34_Original ==
  /\ [](\A id \in DOMAIN pendingApprovals : reqs[pendingApprovals[id].req].requestMsg = "sent")
  /\ [][lastOp'.kind = "resolve" =>
          \A r \in 1..Len(reqs) :
            (reqs[r].id = lastOp'.id /\ reqs[r].pc = "deliver" /\ reqs[r].requestMsg = "handed")
              => /\ ~lastOp'.ret
                 /\ pendingApprovals' = pendingApprovals
                 /\ reqs' = reqs]_vars
\* C35: when the delivery of the approval message of a call raises, the call
\* returns approved = false with the error, and the ledger is left exactly
\* as it was: no entry is stored and no timer is armed for that call, then
\* or later.
C35_DeliveryFailureLeavesLedger ==
  /\ [][(lastOp'.kind = "deliver" /\ ~lastOp'.ret) =>
          /\ pendingApprovals' = pendingApprovals
          /\ reqs'[lastOp'.req].result.returned
          /\ ~reqs'[lastOp'.req].result.approved
          /\ reqs'[lastOp'.req].result.error # ""
          /\ \A q \in 1..Len(reqs) : q # lastOp'.req => reqs'[q] = reqs[q]]_vars
  /\ [](\A r \in 1..Len(reqs) :
          reqs[r].requestMsg = "failed" =>
            /\ reqs[r].timer = "none"
            /\ reqs[r].pc = "done"
            /\ ~reqs[r].result.approved
            /\ \A id \in DOMAIN pendingApprovals : pendingApprovals[id].req # r)

\* the delivery for one call has raised while another call waits under the
\* same id: that call's entry is still in the ledger and its timer is armed
C35_Witness ==
  \E r, q \in 1..Len(reqs) :
    /\ lastOp.kind = "deliver" /\ ~lastOp.ret /\ lastOp.req = r
    /\ reqs[r].requestMsg = "failed"
    /\ reqs[r].result = ErrorResult("delivery failed")
    /\ q # r /\ reqs[q].id = reqs[r].id /\ reqs[q].pc = "waiting" /\ reqs[q].timer = "armed"
    /\ reqs[r].id \in DOMAIN pendingApprovals /\ pendingApprovals[reqs[r].id].req = q
\* C36: the tracker's cell changes only when an event of the `browser` tool
\* is observed that is a navigate with a string target or whose result has
\* a string url; when the event has both, the cell holds the url of the
\* result afterwards; every other step leaves the cell as it is, and a cell
\* that holds a URL never becomes absent again.
C36_TrackerFrame ==
  [][/\ currentUrl' # currentUrl =>
          /\ lastOp'.kind = "after_tool_call"
          /\ call.toolName = "browser"
          /\ (call.action = "navigate" /\ call.targetUrl # NULL) \/ lastOp'.id # NULL
     /\ (lastOp'.kind = "after_tool_call" /\ call.toolName = "browser" /\ lastOp'.id # NULL) =>
          currentUrl' = lastOp'.id
     /\ (lastOp'.kind = "after_tool_call" /\ call.toolName = "browser" /\ lastOp'.id = NULL
           /\ call.action = "navigate" /\ call.targetUrl # NULL) =>
          currentUrl' = call.targetUrl
     /\ currentUrl # NULL => currentUrl' # NULL]_vars

\* a navigate to the checkout page was redirected: the observed event had
\* the target and another url in its result, and the cell holds the latter
C36_Witness ==
  /\ lastOp.kind = "after_tool_call"
  /\ verdict.event.toolName = "browser"
  /\ verdict.event.action = "navigate"
  /\ verdict.event.targetUrl = UrlCheckout
  /\ lastOp.id = UrlBrowse
  /\ currentUrl = UrlBrowse
\* the last vault call is a vaultInject that took the auto-detect branch
AutoDetect ==
  /\ vaultCall.tool = "vaultInject"
  /\ vaultCall.args.username \in {NULL, <<>>} \/ vaultCall.args.password \in {NULL, <<>>}

\* C37: in auto-detect mode vaultInject looks for the username input and the
\* password input in one snapshot before it types anything: when either is
\* missing it fails and nothing has been typed into the page.
C37_NoPartialFill ==
  \A r \in Runs :
    AutoDetect =>
      /\ (~HasInput(vaultCall.env.snaps.inject, UsernamePattern) \/ ~HasInput(vaultCall.env.snaps.inject, PasswordPattern))
           => /\ Typed(r) = <<>>
              /\ toolResult[r] # [filled |-> TRUE]
      /\ \A i \in 1..Len(trace[r]) :
           trace[r][i].op = "type" => \E k \in 1..(i - 1) : trace[r][k].op = "snapshot" /\ trace[r][k].ok

\* on the first step of a two-step login the e-mail input was found, the
\* password input was not, and nothing was typed
C37_Witness ==
  /\ AutoDetect
  /\ vaultCall.env.snaps.inject = EmailStepSnap
  /\ Resolved("a")
  /\ toolResult["a"] = [thrown |-> TRUE, error |-> <<"Could not auto-detect password input field on page">>]
  /\ Typed("a") = <<>>
  /\ \E i \in 1..Len(trace["a"]) : trace["a"][i].op = "snapshot" /\ trace["a"][i].ok

\* C38 (as claimed): in auto-detect mode, whenever the snapshot has a
\* username input and a password input, the element the password is typed
\* into is not the element the username was typed into.
C38_Original ==
  \A r \in Runs :
    (/\ AutoDetect
     /\ HasInput(vaultCall.env.snaps.inject, UsernamePattern)
     /\ HasInput(vaultCall.env.snaps.inject, PasswordPattern)
     /\ Len(Typed(r)) = 2)
      => Typed(r)[1].ref # Typed(r)[2].ref
\* the secret resolutions a run has attempted, in order
Resolutions(r) == SelectSeq(trace[r], LAMBDA e : e.op = "resolve")

\* the number of errors a vault_fill result lists
NumErrors(result) == IF "errors" \in DOMAIN result THEN Len(result.errors) ELSE 0

\* vault_fill has attempted every entry of the field map once, in map
\* order: one resolution per entry, each followed by the typing into the
\* entry's ref when it succeeded, and nothing else
AttemptedInOrder(r) ==
  /\ Len(Resolutions(r)) = Len(vaultCall.args)
  /\ \A i \in 1..Len(vaultCall.args) :
       Resolutions(r)[i].ref = resolveFieldName(vaultCall.args[i].fieldName)
  /\ \A k \in 1..Len(trace[r]) :
       /\ trace[r][k].op \in {"resolve", "type"}
       /\ trace[r][k].op = "type" =>
            /\ k > 1 /\ trace[r][k - 1].op = "resolve" /\ trace[r][k - 1].ok
            /\ trace[r][k].ref = vaultCall.args[Len(SelectSeq(SubSeq(trace[r], 1, k), LAMBDA e : e.op = "resolve"))].ref
       /\ (trace[r][k].op = "resolve" /\ trace[r][k].ok) =>
            k < Len(trace[r]) /\ trace[r][k + 1].op = "type"

\* the counts of a vault_fill result add up, and a field is counted as
\* filled only when its secret was resolved and its text was typed
CountsAddUp(r) ==
  /\ {"filled", "total"} \subseteq DOMAIN toolResult[r]
  /\ toolResult[r].total = Len(vaultCall.args)
  /\ toolResult[r].filled + NumErrors(toolResult[r]) = toolResult[r].total
  /\ toolResult[r].success <=> (toolResult[r].filled = toolResult[r].total)
  /\ toolResult[r].filled = Len(SelectSeq(Typed(r), LAMBDA e : e.ok))

\* C39 (as claimed): vault_fill attempts every entry of the field map
\* exactly once, in map order; its result always has filled + number of
\* errors = total and success <=> filled = total; a field counts as filled
\* only if its secret resolution and its type action both succeeded.
C39_Original ==
  \A r \in Runs : vaultCall.tool = "vault_fill" => (AttemptedInOrder(r) /\ CountsAddUp(r))

\* C39 (amended): once the field map is not empty and the vault client is
\* there, vault_fill attempts every entry exactly once, in map order, and
\* its result has filled + number of errors = total and success <=> filled
\* = total, a field counting as filled only if its secret resolution and its
\* type action both succeeded; with an empty field map, or without a client,
\* it attempts no entry and returns success = false with an error and
\* without counts.
C39_LoopAccountsForEveryEntry ==
  \A r \in Runs :
    vaultCall.tool = "vault_fill" =>
      IF Len(vaultCall.args) > 0 /\ clientPromise[r] # NoClient
      THEN AttemptedInOrder(r) /\ CountsAddUp(r)
      ELSE /\ trace[r] = <<>>
           /\ DOMAIN toolResult[r] = {"success", "error"}
           /\ ~toolResult[r].success

\* two entries: the first was resolved but could not be typed, the second
\* was resolved and typed; the result counts 1 filled, 1 error, 2 in total
C39_Witness ==
  /\ vaultCall.tool = "vault_fill"
  /\ Len(vaultCall.args) = 2
  /\ vaultCall.env.failAct = 1
  /\ Len(Resolutions("a")) = 2
  /\ Len(Typed("a")) = 2
  /\ ~Typed("a")[1].ok /\ Typed("a")[2].ok
  /\ toolResult["a"].filled = 1
  /\ toolResult["a"].total = 2
  /\ NumErrors(toolResult["a"]) = 1
  /\ ~toolResult["a"].success
\* the snapshot taken after the login form was submitted shows a 2FA prompt
Has2faPrompt ==
  vaultCall.env.snaps.post.ok /\ HasInput(vaultCall.env.snaps.post, TotpPattern)

\* C40: vault_login returns loggedIn = true exactly when the credentials
\* were injected, no step raised, and it is not so that a 2FA prompt was
\* detected while the vault item has no one-time password; in that case it
\* returns success = false with the 2FA error. Whether a submit or verify
\* button was found and clicked, and whether the snapshots for them and for
\* the 2FA check succeeded, does not enter the condition.
C40_LoggedInExactlyWhen ==
  \A r \in Runs :
    vaultCall.tool = "vault_login" =>
      /\ toolResult[r].loggedIn <=> (~ErrorOccurred(r) /\ ~(Has2faPrompt /\ ~HasTotp(r)))
      /\ toolResult[r].loggedIn <=> toolResult[r].success
      /\ toolResult[r].loggedIn =>
           /\ Count(r, "type") >= 2
           /\ \A i \in 1..Len(trace[r]) : trace[r][i].op = "type" => trace[r][i].ok
      /\ (~ErrorOccurred(r) /\ Has2faPrompt /\ ~HasTotp(r)) =>
           toolResult[r] =
             [success |-> FALSE, loggedIn |-> FALSE,
              error |-> <<"2FA was prompted but no TOTP secret is configured for this vault item">>]

\* a login that went through although the snapshot for the submit button
\* failed and the 2FA page has no verify button: the two credentials and the
\* one-time password were typed and nothing was clicked
C40_Witness ==
  /\ vaultCall.tool = "vault_login"
  /\ vaultCall.env.snaps.submit = FailedSnap
  /\ vaultCall.env.snaps.post = CodeOnlySnap
  /\ \A r \in Runs :
       /\ HasTotp(r)
       /\ Count(r, "type") = 3
       /\ Count(r, "click") = 0
       /\ toolResult[r].loggedIn

====
